---------------------------- MODULE Spec2Model ----------------------------
(***************************************************************************)
(* A model of the deep-thinking reasoning core of the repository:           *)
(*   - DynamicBudgetAllocator   (backend/core/reasoning/budget_allocator.py)*)
(*   - DualProcessEngine        (backend/core/reasoning/dual_process.py)    *)
(*   - ReasoningChain           (backend/core/reasoning/reasoning_chain.py) *)
(*   - MCTSReasoningEngine      (backend/core/reasoning/mcts_engine.py)     *)
(*   - MetacognitiveController  (.../metacognitive_controller.py)           *)
(*                                                                         *)
(* Numbers.  The code computes with Python floats; the model computes with  *)
(* exact fixed-point integers:                                              *)
(*   complexity, factors of the Mode Selector          : ten-thousandths    *)
(*   cognitive load, valence, reasoning ratio, margin  : hundredths         *)
(*   emotion / readiness factor of the allocator       : tenths             *)
(*   step confidence, node value                       : see ConfUnit       *)
(* int(x) of a non-negative float is the floor of the exact quotient.       *)
(***************************************************************************)
EXTENDS Integers, Sequences, FiniteSets, TLC

VARIABLES
    cfg,        \* BudgetConfig of the allocator under test
    call,       \* the last allocate_budget call: its arguments and its outcome
    prev,       \* the call before it, when the last call repeated it with a higher complexity
    sel,        \* the last select_thinking_mode call: its arguments and its outcome
    dec,        \* the last _make_decision call: its arguments and its outcome
    est,        \* a query and the score each complexity estimator gives it
    objs,       \* the ReasoningStep objects created so far; a step's identity is its index
    chain,      \* the ReasoningChain; chain.steps holds references (indices into objs)
    now,        \* the clock datetime.utcnow() reads
    pc,         \* where the generate_reasoning_chain request stands
    req,        \* the arguments of the generate_reasoning_chain request
    iteration,  \* completed iterations of the search loop
    nodes,      \* the search tree; nodes[1] is the root
    selected,   \* the node whose expansion is awaiting the step generator (0: none)
    calls,      \* step-generation calls started by this request
    fails,      \* step-generation calls that raised
    cancelled,  \* the cancellation signal for this request
    result,     \* how the request ended
    passes,     \* history: the node each _backpropagate call started at, and its value
    context,    \* the path context given to the last step-generation call, line by line
    tasks,      \* two requests in flight on one controller: each one's local variables
    heap,       \* every MCTSNode those requests have allocated, and who allocated it
    store       \* the vector store: its connection, the points Qdrant holds, the last call

budgetVars == <<cfg, call, prev>>
selVars == <<sel, dec, est>>
chainVars == <<objs, chain, now>>
soloVars == <<pc, req, iteration, nodes, selected, calls, fails, cancelled, result, passes, context>>
concVars == <<tasks, heap>>
genVars == <<soloVars, concVars>>
storeVars == <<store>>
vars == <<cfg, call, prev, sel, dec, est, objs, chain, now,
          pc, req, iteration, nodes, selected, calls, fails, cancelled, result, passes, context,
          tasks, heap, store>>

None == "None"

Min(a, b) == IF a <= b THEN a ELSE b
Max(a, b) == IF a >= b THEN a ELSE b

(***************************************************************************)
(* floor(a * b / d) for a, b >= 0 and d > 0, computed without leaving the   *)
(* 32-bit range: <<q, r>> with x * b = q * d + r, built bit by bit from b.  *)
(***************************************************************************)
RECURSIVE MulQR(_, _, _)
MulQR(x, b, d) ==
    IF b = 0 THEN <<0, 0>>
    ELSE LET h == MulQR(x, b \div 2, d)
             r2 == 2 * h[2] + (IF b % 2 = 1 THEN x ELSE 0)
         IN  <<2 * h[1] + (r2 \div d), r2 % d>>

MulDivFloor(a, b, d) == (a \div d) * b + MulQR(a % d, b, d)[1]

(***************************************************************************)
(* core.models (not in the source tree): the five readiness tiers and the  *)
(* emotion snapshot, of which the reasoning core reads primary_emotion,     *)
(* valence and learning_readiness.                                          *)
(***************************************************************************)
LearningReadiness ==
    {"optimal_readiness", "high_readiness", "moderate_readiness", "low_readiness", "not_ready"}

NoAffect == [primary_emotion |-> None, valence |-> 0, learning_readiness |-> None]

(***************************************************************************)
(* Budget allocator                                                         *)
(***************************************************************************)
BudgetMode == {"conservative", "balanced", "aggressive"}

\* BudgetConfig: the field constraints pydantic enforces on construction.
BudgetConfigOK(c) ==
    /\ c.conservative_base \in 2000..3000
    /\ c.balanced_base \in 3000..5000
    /\ c.aggressive_base \in 5000..8000
    /\ c.reasoning_ratio_min \in 20..60
    /\ c.reasoning_ratio_max \in 50..80
    /\ c.provider_max_tokens \in 2048..16384
    /\ c.safety_margin \in 80..95

DefaultBudgetConfig ==
    [conservative_base |-> 2500, balanced_base |-> 4000, aggressive_base |-> 6500,
     reasoning_ratio_min |-> 40, reasoning_ratio_max |-> 70,
     provider_max_tokens |-> 8192, safety_margin |-> 90]

\* A query text, reduced to the signals the complexity estimators read.
\*   blank      : empty or whitespace only
\*   words      : len(query.split())
\*   tech       : lexicon terms of the allocator's list found by substring
\*   tech_extra : terms found that only the Mode Selector's list contains
\*   has_complex, has_simple : a complex / simple question word occurs
\*   qmarks     : query.count('?')
BlankQuery ==
    [blank |-> TRUE, words |-> 0, tech |-> 0, tech_extra |-> 0,
     has_complex |-> FALSE, has_simple |-> FALSE, qmarks |-> 0]

\* _estimate_complexity, in ten-thousandths.
EstimateComplexity(q) ==
    IF q.blank THEN 0
    ELSE LET length_score ==       \* thousandths
                 IF q.words > 100
                 THEN Min(900 + (q.words - 100), 1000)
                 ELSE Min(q.words * 20, 1000)
             tech_score3 == Min(q.tech, 3)                 \* thirds
             question_score == IF q.has_complex THEN 70    \* hundredths
                               ELSE IF q.has_simple THEN 30 ELSE 50
             multi_question_bonus == Min(q.qmarks * 100, 150)   \* thousandths
             complexity == length_score * 2 + tech_score3 * 1500
                           + question_score * 25 + multi_question_bonus
         IN  Min(complexity, 10000)

\* _get_emotion_factor, in tenths.  A missing emotion state raises inside the
\* method's own try block, which answers 1.0.
EmotionFactor(es) ==
    LET primary == es.primary_emotion
        factor == CASE primary = "confused" -> 15
                    [] primary = "frustrated" -> 14
                    [] primary = "anxious" -> 13
                    [] primary = "overwhelmed" -> 6
                    [] primary = "curious" -> 12
                    [] primary = "engaged" -> 10
                    [] primary = "confident" -> 9
                    [] primary = "excited" -> 11
                    [] primary = "neutral" -> 10
                    [] primary = "bored" -> 8
                    [] OTHER -> 10
    IN  IF es = NoAffect THEN 10 ELSE Max(5, Min(factor, 20))

\* _get_cognitive_load_factor, in hundredths.
CognitiveLoadFactor(load) == Max(50, Min(150 - load, 150))

\* _get_readiness_factor, in tenths.
ReadinessFactor(readiness) ==
    LET factor == CASE readiness = "optimal_readiness" -> 12
                    [] readiness = "high_readiness" -> 10
                    [] readiness = "moderate_readiness" -> 9
                    [] readiness = "low_readiness" -> 7
                    [] readiness = "not_ready" -> 5
                    [] OTHER -> 10
    IN  Max(5, Min(factor, 13))

\* _determine_budget_mode.  A missing emotion state raises inside the method's
\* own try block, which answers BALANCED.
DetermineBudgetModeComplexOnly(complexity, es, cognitive_load, learning_readiness) ==
    LET struggling ==
            \/ es.primary_emotion \in {"confused", "frustrated", "anxious"}
            \/ learning_readiness \in {"low_readiness", "not_ready"}
            \/ cognitive_load > 70
        confident ==
            /\ es.primary_emotion \in {"confident", "engaged"}
            /\ learning_readiness \in {"high_readiness", "optimal_readiness"}
            /\ cognitive_load < 40
    IN  IF es = NoAffect THEN "balanced"
        ELSE IF struggling /\ complexity > 6000 THEN "aggressive"
        ELSE IF complexity > 7000 THEN "aggressive"
        ELSE IF confident /\ complexity < 3000 THEN "conservative"
        ELSE "balanced"

DetermineBudgetMode(complexity, es, cognitive_load, learning_readiness) ==
    LET struggling ==
            \/ es.primary_emotion \in {"confused", "frustrated", "anxious"}
            \/ learning_readiness \in {"low_readiness", "not_ready"}
            \/ cognitive_load > 70
        confident ==
            /\ es.primary_emotion \in {"confident", "engaged"}
            /\ learning_readiness \in {"high_readiness", "optimal_readiness"}
            /\ cognitive_load < 40
    IN  IF es = NoAffect THEN "balanced"
        ELSE IF struggling /\ complexity > 6000 THEN "aggressive"
        ELSE IF struggling \/ complexity > 7000 THEN "aggressive"
        ELSE IF confident /\ complexity < 3000 THEN "conservative"
        ELSE "balanced"

\* _get_base_budget_for_mode.
BaseBudgetForMode(c, mode) ==
    CASE mode = "conservative" -> c.conservative_base
      [] mode = "balanced" -> c.balanced_base
      [] mode = "aggressive" -> c.aggressive_base
      [] OTHER -> c.balanced_base

\* The clamp at the end of _calculate_reasoning_ratio.
ClampRatio(c, base_ratio) ==
    Max(c.reasoning_ratio_min, Min(base_ratio, c.reasoning_ratio_max))

\* The ratio with the sign of the complexity term slipped.
ReasoningRatioSignSlip(c, complexity, es) ==
    LET r0 == 50
        r1 == IF complexity > 7000 THEN r0 - 15 ELSE r0
        r2 == IF es.primary_emotion \in {"confused", "frustrated"} THEN r1 + 10 ELSE r1
        r3 == IF es.primary_emotion \in {"confident", "engaged"} THEN r2 - 10 ELSE r2
    IN  IF es = NoAffect THEN 50 ELSE ClampRatio(c, r3)

\* _calculate_reasoning_ratio, in hundredths.  A missing emotion state raises
\* inside the method's own try block, which answers 0.5.
ReasoningRatio(c, complexity, es) ==
    LET r0 == 50
        r1 == IF complexity > 7000 THEN r0 + 15 ELSE r0
        r2 == IF es.primary_emotion \in {"confused", "frustrated"} THEN r1 + 10 ELSE r1
        r3 == IF es.primary_emotion \in {"confident", "engaged"} THEN r2 - 10 ELSE r2
    IN  IF es = NoAffect THEN 50 ELSE ClampRatio(c, r3)

\* "Enforce limits": adjusted_total = min(adjusted_total, safe_max), then
\* adjusted_total = max(adjusted_total, conservative_base).
EnforceLimits(c, adjusted_total, safe_max) ==
    Max(Min(adjusted_total, safe_max), c.conservative_base)

\* The split of a total that rounds each share on its own.
SplitBudgetRoundedTwice(adjusted_total, reasoning_ratio) ==
    [reasoning_tokens |-> (adjusted_total * reasoning_ratio) \div 100,
     response_tokens |-> (adjusted_total * (100 - reasoning_ratio)) \div 100]

\* reasoning_tokens = int(adjusted_total * reasoning_ratio)
\* response_tokens = adjusted_total - reasoning_tokens
SplitBudget(adjusted_total, reasoning_ratio) ==
    LET reasoning_tokens == (adjusted_total * reasoning_ratio) \div 100
    IN  [reasoning_tokens |-> reasoning_tokens,
         response_tokens |-> adjusted_total - reasoning_tokens]

\* What a call hands back: a TokenBudget, or the ValueError it raised.
Raised(why) ==
    [kind |-> "ValueError", why |-> why, reasoning_tokens |-> 0, response_tokens |-> 0,
     total_tokens |-> 0, mode |-> None, complexity_score |-> 0, reasoning_ratio |-> 0,
     safe_max |-> 0, fallback |-> FALSE]

\* The budget of the "except Exception" branch.
FallbackBudget ==
    [kind |-> "TokenBudget", why |-> None, reasoning_tokens |-> 1500,
     response_tokens |-> 1500, total_tokens |-> 3000, mode |-> "balanced",
     complexity_score |-> 5000, reasoning_ratio |-> 50, safe_max |-> 0, fallback |-> TRUE]

\* The range check with its lower bound forgotten.
InUnitRangeNoLowerBound(x, scale) == x <= scale

\* The range check of a 0-1 argument: not 0.0 <= x <= 1.0 raises.
InUnitRange(x, scale) == 0 <= x /\ x <= scale

\* allocate_budget(emotion_state, cognitive_load, complexity, mode, query,
\*                 learning_readiness, provider_max_tokens) under config c.
\* An optional number or text comes with a flag (complexity_given, query_given)
\* that is FALSE for None; mode and learning_readiness are None or a value;
\* provider_max_tokens = 0 stands for both None and 0 ("x or default").
AllocateBudget(c, a) ==
    IF ~InUnitRange(a.cognitive_load, 100) THEN Raised("cognitive_load")
    ELSE
    LET max_tokens == IF a.provider_max_tokens = 0 THEN c.provider_max_tokens
                      ELSE a.provider_max_tokens
        safe_max == (max_tokens * c.safety_margin) \div 100
    IN
    IF ~a.complexity_given /\ ~a.query_given THEN Raised("complexity_or_query")
    ELSE IF a.complexity_given /\ ~InUnitRange(a.complexity, 10000)
    THEN Raised("complexity")
    ELSE
    LET complexity == IF a.complexity_given THEN a.complexity
                      ELSE EstimateComplexity(a.query)
    IN
    IF a.learning_readiness = None /\ a.emotion_state = NoAffect THEN FallbackBudget
    ELSE
    LET learning_readiness == IF a.learning_readiness = None
                              THEN a.emotion_state.learning_readiness
                              ELSE a.learning_readiness
        emotion_factor == EmotionFactor(a.emotion_state)
        load_factor == CognitiveLoadFactor(a.cognitive_load)
        readiness_factor == ReadinessFactor(learning_readiness)
        mode == IF a.mode = None
                THEN DetermineBudgetMode(complexity, a.emotion_state,
                                         a.cognitive_load, learning_readiness)
                ELSE a.mode
        base_budget == BaseBudgetForMode(c, mode)
        \* complexity_factor = 0.8 + 0.4 * complexity = (20000 + complexity) / 25000,
        \* complexity being in ten-thousandths
        adjusted == MulDivFloor(base_budget * emotion_factor * load_factor * readiness_factor,
                                20000 + complexity, 10 * 100 * 10 * 25000)
        adjusted_total == EnforceLimits(c, adjusted, safe_max)
        reasoning_ratio == ReasoningRatio(c, complexity, a.emotion_state)
        split == SplitBudget(adjusted_total, reasoning_ratio)
    IN  [kind |-> "TokenBudget", why |-> None,
         reasoning_tokens |-> split.reasoning_tokens,
         response_tokens |-> split.response_tokens,
         total_tokens |-> adjusted_total, mode |-> mode,
         complexity_score |-> complexity, reasoning_ratio |-> reasoning_ratio,
         safe_max |-> safe_max, fallback |-> FALSE]

(***************************************************************************)
(* Mode Selector (DualProcessEngine)                                        *)
(***************************************************************************)
ThinkingMode == {"system1", "system2", "hybrid"}

\* _analyze_complexity without its empty-query case.
AnalyzeComplexityNoBlankCase(q) ==
    LET length_score ==
            IF q.words > 100
            THEN Min(600 + q.words * 10, 1000)
            ELSE Min(q.words * 20, 1000)
        tech_score3 == Min(q.tech + q.tech_extra, 3)
        question_score == IF q.has_complex THEN 70
                          ELSE IF q.has_simple THEN 30 ELSE 50
        multi_question_bonus == Min(q.qmarks * 100, 150)
        complexity == length_score * 2 + tech_score3 * 1500
                      + question_score * 25 + multi_question_bonus
    IN  Min(complexity, 10000)

\* _analyze_complexity, in ten-thousandths.  The Mode Selector's lexicon is
\* the allocator's plus further terms (tech_extra counts the additional hits).
AnalyzeComplexity(q) ==
    IF q.blank THEN 0
    ELSE LET length_score ==       \* thousandths
                 IF q.words > 100
                 THEN Min(600 + q.words * 10, 1000)
                 ELSE Min(q.words * 20, 1000)
             tech_score3 == Min(q.tech + q.tech_extra, 3)  \* thirds
             question_score == IF q.has_complex THEN 70    \* hundredths
                               ELSE IF q.has_simple THEN 30 ELSE 50
             multi_question_bonus == Min(q.qmarks * 100, 150)   \* thousandths
             complexity == length_score * 2 + tech_score3 * 1500
                           + question_score * 25 + multi_question_bonus
         IN  Min(complexity, 10000)

\* _analyze_emotion with the table and the valence blended half and half.
AnalyzeEmotionEvenBlend(es) ==
    LET primary == es.primary_emotion
        base_score == CASE primary = "confused" -> 20
                        [] primary \in {"frustrated", "anxious"} -> 30
                        [] primary = "overwhelmed" -> 10
                        [] primary = "neutral" -> 50
                        [] primary \in {"curious", "interested"} -> 60
                        [] primary \in {"confident", "satisfied"} -> 90
                        [] primary \in {"engaged", "excited"} -> 80
                        [] OTHER -> 50
        emotion_factor == base_score * 50 + (es.valence + 100) * 25
    IN  IF es = NoAffect THEN 5000 ELSE Max(0, Min(emotion_factor, 10000))

\* _analyze_emotion, in ten-thousandths: 0.7 * table + 0.3 * (valence + 1) / 2.
\* A missing emotion state raises inside the method's own try block: 0.5.
AnalyzeEmotion(es) ==
    LET primary == es.primary_emotion
        base_score == CASE primary = "confused" -> 20
                        [] primary \in {"frustrated", "anxious"} -> 30
                        [] primary = "overwhelmed" -> 10
                        [] primary = "neutral" -> 50
                        [] primary \in {"curious", "interested"} -> 60
                        [] primary \in {"confident", "satisfied"} -> 90
                        [] primary \in {"engaged", "excited"} -> 80
                        [] OTHER -> 50
        emotion_factor == base_score * 70 + (es.valence + 100) * 15
    IN  IF es = NoAffect THEN 5000 ELSE Max(0, Min(emotion_factor, 10000))

\* _analyze_cognitive_load, in ten-thousandths; load in hundredths.
AnalyzeCognitiveLoad(load_given, load) ==
    LET load_value == IF load_given THEN load ELSE 50
    IN  (100 - Max(0, Min(100, load_value))) * 100

\* _analyze_readiness, in ten-thousandths.
AnalyzeReadiness(readiness) ==
    CASE readiness = "optimal_readiness" -> 10000
      [] readiness = "high_readiness" -> 8000
      [] readiness = "moderate_readiness" -> 5000
      [] readiness = "low_readiness" -> 3000
      [] readiness = "not_ready" -> 1000
      [] OTHER -> 5000

\* The decision tree with the Fast rules tried before the struggling override.
MakeDecisionFastFirst(complexity, emotion_factor, load_factor, readiness_factor) ==
    LET overall_score == complexity * 30 + emotion_factor * 25
                         + load_factor * 25 + readiness_factor * 20
    IN  IF complexity > 7000 THEN <<"system2", 90>>
        ELSE IF complexity < 3500 /\ overall_score > 700000 THEN <<"system1", 85>>
        ELSE IF complexity < 2500 /\ emotion_factor > 6000 THEN <<"system1", 90>>
        ELSE IF emotion_factor < 4000 \/ load_factor < 4000 \/ readiness_factor < 4000
        THEN <<"system2", 85>>
        ELSE <<"hybrid", 75>>

\* The decision tree without its ultra-simple rule.
MakeDecisionNoUltraSimple(complexity, emotion_factor, load_factor, readiness_factor) ==
    LET overall_score == complexity * 30 + emotion_factor * 25
                         + load_factor * 25 + readiness_factor * 20
    IN  IF complexity > 7000 THEN <<"system2", 90>>
        ELSE IF emotion_factor < 4000 \/ load_factor < 4000 \/ readiness_factor < 4000
        THEN <<"system2", 85>>
        ELSE IF complexity < 3500 /\ overall_score > 700000 THEN <<"system1", 85>>
        ELSE <<"hybrid", 75>>

\* _make_decision: <<mode, confidence (hundredths)>>.
MakeDecision(complexity, emotion_factor, load_factor, readiness_factor) ==
    LET overall_score == complexity * 30 + emotion_factor * 25
                         + load_factor * 25 + readiness_factor * 20
    IN  IF complexity > 7000 THEN <<"system2", 90>>
        ELSE IF emotion_factor < 4000 \/ load_factor < 4000 \/ readiness_factor < 4000
        THEN <<"system2", 85>>
        ELSE IF complexity < 3500 /\ overall_score > 700000 THEN <<"system1", 85>>
        ELSE IF complexity < 2500 /\ emotion_factor > 6000 THEN <<"system1", 90>>
        ELSE <<"hybrid", 75>>

\* An estimate that would scale every mode by the Deliberate addend.
EstimateProcessingOneSlope(mode, complexity) ==
    CASE mode = "system1" -> <<5000 + complexity * 5, 300 + (complexity * 3000) \div 10000>>
      [] mode = "system2" -> <<30000 + complexity * 5, 1500 + (complexity * 3000) \div 10000>>
      [] OTHER -> <<15000 + complexity * 5, 800 + (complexity * 3000) \div 10000>>

\* _estimate_processing: <<estimated time in tenths of a ms, estimated tokens>>.
EstimateProcessing(mode, complexity) ==
    CASE mode = "system1" -> <<5000 + complexity, 300 + (complexity * 700) \div 10000>>
      [] mode = "system2" -> <<30000 + complexity * 5, 1500 + (complexity * 3000) \div 10000>>
      [] OTHER -> <<15000 + complexity * 3, 800 + (complexity * 1700) \div 10000>>

\* What select_thinking_mode hands back: a ThinkingDecision or its ValueError.
SelectRaised(why) ==
    [kind |-> "ValueError", why |-> why, mode |-> None, confidence |-> 0,
     complexity_score |-> 0, emotion_factor |-> 0, load_factor |-> 0,
     readiness_factor |-> 0, estimated_time |-> 0, estimated_tokens |-> 0,
     fallback |-> FALSE]

\* The decision of the "except Exception" branch.
FallbackDecision ==
    [kind |-> "ThinkingDecision", why |-> None, mode |-> "hybrid", confidence |-> 50,
     complexity_score |-> 5000, emotion_factor |-> 5000, load_factor |-> 5000,
     readiness_factor |-> 5000, estimated_time |-> 20000, estimated_tokens |-> 1500,
     fallback |-> TRUE]

\* The check made on a cognitive load that passes it.
ValidCognitiveLoadAnyNumber(load) == TRUE

\* The check that would let every load from 0.0 upwards pass.
ValidCognitiveLoadNoUpperBound(load) == 0 <= load

\* not 0.0 <= cognitive_load <= 1.0 raises ValueError.
ValidCognitiveLoad(load) == 0 <= load /\ load <= 100

\* select_thinking_mode(query, emotion_state, cognitive_load, learning_readiness).
\* query_given = FALSE stands for a query that is not a string (None);
\* load_given = FALSE for cognitive_load = None, whose comparison with 0.0
\* raises TypeError, which the "except Exception" branch answers.
SelectThinkingMode(a) ==
    IF ~a.query_given THEN SelectRaised("query")
    ELSE IF ~a.load_given THEN FallbackDecision
    ELSE IF ~ValidCognitiveLoad(a.cognitive_load) THEN SelectRaised("cognitive_load")
    ELSE
    LET complexity == AnalyzeComplexity(a.query)
        emotion_factor == AnalyzeEmotion(a.emotion_state)
        load_factor == AnalyzeCognitiveLoad(a.load_given, a.cognitive_load)
        readiness_factor == AnalyzeReadiness(a.learning_readiness)
        decision == MakeDecision(complexity, emotion_factor, load_factor, readiness_factor)
        estimate == EstimateProcessing(decision[1], complexity)
    IN  [kind |-> "ThinkingDecision", why |-> None, mode |-> decision[1],
         confidence |-> decision[2], complexity_score |-> complexity,
         emotion_factor |-> emotion_factor, load_factor |-> load_factor,
         readiness_factor |-> readiness_factor, estimated_time |-> estimate[1],
         estimated_tokens |-> estimate[2], fallback |-> FALSE]

(***************************************************************************)
(* Reasoning Chain model                                                    *)
(*                                                                         *)
(* Confidences and node values are exact multiples of 1/ConfUnit: a          *)
(* simulated value is a multiple of 1/750, and a mean over at most ten      *)
(* visits divides it by a divisor of 2520.                                  *)
(***************************************************************************)
ConfUnit == 750 * 2520

ReasoningStrategy ==
    <<"deductive", "inductive", "abductive", "analogical", "causal", "algorithmic">>

\* ReasoningStep(step_number=..., content=..., strategy=..., confidence=...):
\* the new object, or nothing when the field constraints reject it
\* (step_number >= 1, content at least one character, 0 <= confidence <= 1).
ReasoningStepOK(step_number, content, confidence) ==
    /\ step_number >= 1
    /\ content # ""
    /\ 0 <= confidence /\ confidence <= ConfUnit

NewReasoningStep(step_number, content, strategy, confidence) ==
    [step_number |-> step_number, content |-> content, strategy |-> strategy,
     confidence |-> confidence]

\* ReasoningChain(query=...): no steps, no conclusion, not completed,
\* total_confidence 0.7, started_at = utcnow().  total_confidence is kept as
\* the fraction sum / n.
NewReasoningChain(t) ==
    [steps |-> <<>>, conclusion |-> None, completed_at |-> 0,
     total_confidence |-> [sum |-> (ConfUnit \div 10) * 7, n |-> 1],
     started_at |-> t, processing_time |-> 0]

\* add_step(step): step.step_number = len(self.steps) + 1, written into the
\* step object itself; self.steps.append(step) stores the reference.
AddStep(ch, ob, id) ==
    [chain |-> [ch EXCEPT !.steps = Append(@, id)],
     objs |-> [ob EXCEPT ![id].step_number = Len(ch.steps) + 1]]

RECURSIVE SumConfidence(_, _)
SumConfidence(steps, ob) ==
    IF steps = <<>> THEN 0
    ELSE ob[Head(steps)].confidence + SumConfidence(Tail(steps), ob)

\* get_average_confidence, as the fraction sum / n (0.0 for no steps).
AverageConfidence(ch, ob) ==
    IF ch.steps = <<>> THEN [sum |-> 0, n |-> 1]
    ELSE [sum |-> SumConfidence(ch.steps, ob), n |-> Len(ch.steps)]

\* mark_complete(conclusion) at time t.
MarkComplete(ch, ob, conclusion, t) ==
    [ch EXCEPT !.conclusion = conclusion,
               !.completed_at = t,
               !.total_confidence = AverageConfidence(ch, ob),
               !.processing_time = t - ch.started_at]

(***************************************************************************)
(* Path Search Engine (MCTS) model                                          *)
(*                                                                         *)
(* The tree is an arena: nodes[1] is the root, a node's identity is its     *)
(* index, parent = 0 stands for no parent.  A node's cumulative value is in *)
(* units of 1/750.                                                          *)
(***************************************************************************)
max_iterations == 10

\* What a step-generation call can return: the stripped text, its number of
\* whitespace-separated words, and the lexicon entries of _infer_strategy
\* that occur in it.
BlankText == [content |-> "", words |-> 0, keywords |-> {}]

\* _infer_strategy: the first keyword group with a hit, DEDUCTIVE by default.
InferStrategy(keywords) ==
    IF keywords \cap {"therefore", "thus", "conclude", "deduce"} # {} THEN "deductive"
    ELSE IF keywords \cap {"pattern", "observe", "notice", "generalize"} # {} THEN "inductive"
    ELSE IF keywords \cap {"likely", "probably", "best explanation", "hypothesis"} # {}
    THEN "abductive"
    ELSE IF keywords \cap {"similar to", "like", "analogy", "comparable"} # {} THEN "analogical"
    ELSE IF keywords \cap {"because", "causes", "leads to", "results in"} # {} THEN "causal"
    ELSE IF keywords \cap {"step", "next", "then", "procedure", "algorithm"} # {}
    THEN "algorithmic"
    ELSE "deductive"

\* MCTSNode(...) as _expand and generate_reasoning_chain construct it.
NewNode(content, words, strategy, parent, depth) ==
    [content |-> content, words |-> words, strategy |-> strategy, parent |-> parent,
     children |-> <<>>, visits |-> 0, value |-> 0, depth |-> depth]

\* The root: content "Query: " + query, DEDUCTIVE, depth 0.
RootNode(query_words) == NewNode("Query: ...", query_words + 1, "deductive", 0, 0)

\* value / visits as a fraction, 0 for an unvisited node (_extract_best_path's key).
AverageValue(n) == IF n.visits > 0 THEN <<n.value, n.visits>> ELSE <<0, 1>>

FracLess(f, g) == f[1] * g[2] < g[1] * f[2]

\* self.exploration_weight = 1.41, in hundredths.
exploration_weight == 141

\* math.log(n) in ten-thousandths, for the visit counts a search of at most
\* max_iterations iterations can give a node.
LnVisits(n) ==
    CASE n = 1 -> 0
      [] n = 2 -> 6931
      [] n = 3 -> 10986
      [] n = 4 -> 13863
      [] n = 5 -> 16094
      [] n = 6 -> 17918
      [] n = 7 -> 19459
      [] n = 8 -> 20794
      [] n = 9 -> 21972
      [] OTHER -> 23026

\* math.sqrt on integers: the largest r in lo..hi with r * r <= x.
RECURSIVE SqrtBetween(_, _, _)
SqrtBetween(x, lo, hi) ==
    IF lo = hi THEN lo
    ELSE LET mid == (lo + hi + 1) \div 2
         IN  IF mid * mid <= x THEN SqrtBetween(x, mid, hi)
             ELSE SqrtBetween(x, lo, mid - 1)

\* The exploitation term value / visits, in ten-thousandths.
Exploitation(n) == (n.value * 40) \div (3 * n.visits)

\* The exploration term C * sqrt(ln(parent.visits) / visits), in
\* ten-thousandths; 0 without a parent or with an unvisited parent.
Exploration(n, nd) ==
    IF n.parent # 0 /\ nd[n.parent].visits > 0
    THEN (exploration_weight
            * SqrtBetween((LnVisits(nd[n.parent].visits) * 10000) \div n.visits, 0, 20000))
         \div 100
    ELSE 0

\* A score that would rate an unvisited node by its (empty) record.
UcbScoreUnvisitedZero(n, nd) ==
    IF n.visits = 0 THEN [infinite |-> FALSE, finite |-> 0]
    ELSE [infinite |-> FALSE, finite |-> Exploitation(n) + Exploration(n, nd)]

\* ucb_score: +infinity for an unvisited node, else exploitation + exploration.
UcbScore(n, nd) ==
    IF n.visits = 0 THEN [infinite |-> TRUE, finite |-> 0]
    ELSE [infinite |-> FALSE, finite |-> Exploitation(n) + Exploration(n, nd)]

\* The order of two scores as floats: +infinity is above every finite score
\* and not above itself.
UcbLess(a, b, nd) ==
    LET sa == UcbScore(a, nd)
        sb == UcbScore(b, nd)
    IN  IF sa.infinite THEN FALSE
        ELSE IF sb.infinite THEN TRUE
        ELSE sa.finite < sb.finite

\* max(children, key=ucb_score): the first child of maximal score.
RECURSIVE MaxUcbChild(_, _)
MaxUcbChild(ids, nd) ==
    IF Len(ids) = 1 THEN ids[1]
    ELSE LET rest == MaxUcbChild(Tail(ids), nd)
         IN  IF UcbLess(nd[ids[1]], nd[rest], nd) THEN rest ELSE ids[1]

\* A selection that would stay at the node it is given.
SelectWithoutDescent(id, nd) == id

\* _select: descend by highest UCB score until a node without children.
RECURSIVE SelectLeaf(_, _)
SelectLeaf(id, nd) ==
    IF nd[id].children = <<>> THEN id
    ELSE SelectLeaf(MaxUcbChild(nd[id].children, nd), nd)

RECURSIVE StrategiesUsed(_, _)
StrategiesUsed(id, nd) ==
    IF id = 0 THEN {}
    ELSE {nd[id].strategy} \cup StrategiesUsed(nd[id].parent, nd)

\* _simulate, in units of 1/750:
\* 0.4 * min(depth / 5, 1) + 0.4 * min(words / 50, 1)
\* + 0.2 * (len(strategies_used) / 6 * 0.2).
Simulate(id, nd) ==
    60 * Min(nd[id].depth, 5) + 6 * Min(nd[id].words, 50)
    + 5 * Cardinality(StrategiesUsed(id, nd))

\* One line of a path context: "Step <label>: <content>", or the unlabelled
\* line "No previous steps" (label 0).
ContextLine(label, content) == [label |-> label, content |-> content]

\* _build_path_context: from the node up to (not including) the root, each
\* node's line is labelled len(steps) + 1 and inserted at the front.
RECURSIVE BuildPathContext(_, _, _)
BuildPathContext(current, steps, nd) ==
    IF nd[current].parent = 0 THEN steps
    ELSE BuildPathContext(nd[current].parent,
                          <<ContextLine(Len(steps) + 1, nd[current].content)>> \o steps, nd)

\* "\n".join(steps) if steps else "No previous steps"
PathContext(id, nd) ==
    LET steps == BuildPathContext(id, <<>>, nd)
    IN  IF steps = <<>> THEN <<ContextLine(0, "No previous steps")>> ELSE steps

\* A backpropagation that would update the node it starts at and stop there.
BackpropagateNodeOnly(id, value, nd) ==
    IF id = 0 THEN nd
    ELSE [nd EXCEPT ![id].visits = @ + 1, ![id].value = @ + value]

\* _backpropagate: visits += 1 and value += value from the node up to the root.
RECURSIVE Backpropagate(_, _, _)
Backpropagate(id, value, nd) ==
    IF id = 0 THEN nd
    ELSE Backpropagate(nd[id].parent, value,
                       [nd EXCEPT ![id].visits = @ + 1, ![id].value = @ + value])

\* max(children, key=average value): the first child of maximal average.
RECURSIVE BestChild(_, _)
BestChild(ids, nd) ==
    IF Len(ids) = 1 THEN ids[1]
    ELSE LET rest == BestChild(Tail(ids), nd)
         IN  IF FracLess(AverageValue(nd[ids[1]]), AverageValue(nd[rest]))
             THEN rest ELSE ids[1]

\* An extraction that would stop at the root's best child.
BestPathNodesOneLevel(id, nd) ==
    IF nd[id].children = <<>> THEN <<>>
    ELSE <<BestChild(nd[id].children, nd)>>

\* The nodes _extract_best_path walks through, below the root.
RECURSIVE BestPathNodes(_, _)
BestPathNodes(id, nd) ==
    IF nd[id].children = <<>> THEN <<>>
    ELSE LET best_child == BestChild(nd[id].children, nd)
         IN  <<best_child>> \o BestPathNodes(best_child, nd)

\* A step's confidence: value / visits, 0.5 for an unvisited node.  value is in
\* units of 1/750 and the result in units of 1/ConfUnit = 1/(750 * 2520).
NodeConfidence(n) ==
    IF n.visits > 0 THEN (n.value * 2520) \div n.visits
    ELSE ConfUnit \div 2

\* _extract_best_path: the ReasoningPath, or the validation error of the first
\* ReasoningStep whose fields are rejected (ok = FALSE).
ExtractBestPathFrom(root, nd) ==
    LET ids == BestPathNodes(root, nd)
        steps == [i \in 1..Len(ids) |->
                     NewReasoningStep(i, nd[ids[i]].content, nd[ids[i]].strategy,
                                      NodeConfidence(nd[ids[i]]))]
        last == IF ids = <<>> THEN nd[root] ELSE nd[ids[Len(ids)]]
    IN  [ok |-> \A i \in 1..Len(ids) :
                    ReasoningStepOK(steps[i].step_number, steps[i].content,
                                    steps[i].confidence),
         steps |-> steps,
         total_value |-> AverageValue(last),
         conclusion |-> IF ids = <<>> THEN "No reasoning steps generated"
                        ELSE nd[ids[Len(ids)]].content]

\* The arena of a single request holds its root at index 1.
ExtractBestPath(nd) == ExtractBestPathFrom(1, nd)

\* selected_node.children.append(new_node); _simulate(new_node);
\* _backpropagate(new_node, value): the iteration's tail when _expand returned
\* a node built from the generated text.
ExpandAndEvaluate(nd, parent, text) ==
    LET new_node == NewNode(text.content, text.words, InferStrategy(text.keywords),
                            parent, nd[parent].depth + 1)
        id == Len(nd) + 1
        grown == [Append(nd, new_node) EXCEPT ![parent].children = Append(@, id)]
    IN  Backpropagate(id, Simulate(id, grown), grown)

\* _simulate(selected_node); _backpropagate(selected_node, value): the
\* iteration's tail when nothing was expanded.
EvaluateOnly(nd, id) == Backpropagate(id, Simulate(id, nd), nd)

(***************************************************************************)
(* Metacognitive Controller model                                           *)
(***************************************************************************)

\* A depth rule that would give the fast mode the floor of the other modes.
CalculateReasoningDepthFastThree(thinking_mode, reasoning_tokens) ==
    CASE thinking_mode = "system2" -> Min(8, Max(3, reasoning_tokens \div 400))
      [] thinking_mode = "hybrid" -> Min(5, Max(3, reasoning_tokens \div 500))
      [] OTHER -> 3

\* _calculate_reasoning_depth(thinking_mode, token_budget).
CalculateReasoningDepth(thinking_mode, reasoning_tokens) ==
    CASE thinking_mode = "system1" -> 2
      [] thinking_mode = "system2" -> Min(8, Max(3, reasoning_tokens \div 400))
      [] OTHER -> Min(5, Max(3, reasoning_tokens \div 500))

\* for step in reasoning_path.steps: chain.add_step(step)
RECURSIVE AddSteps(_, _, _)
AddSteps(ch, ob, steps) ==
    IF steps = <<>> THEN [chain |-> ch, objs |-> ob]
    ELSE LET held == Append(ob, Head(steps))
             r == AddStep(ch, held, Len(held))
         IN  AddSteps(r.chain, r.objs, Tail(steps))

\* A tail that would mark the chain complete before adding the steps.
CompleteFromPathMarkedFirst(ch, ob, steps, conclusion, t) ==
    LET r == AddSteps(MarkComplete(ch, ob, conclusion, t), ob, steps)
    IN  [chain |-> r.chain, objs |-> r.objs]

\* The tail of the try block: add the path's steps, mark the chain complete.
CompleteFromPath(ch, ob, steps, conclusion, t) ==
    LET r == AddSteps(ch, ob, steps)
    IN  [chain |-> MarkComplete(r.chain, r.objs, conclusion, t), objs |-> r.objs]

\* A query string, as far as slicing can tell strings apart: which text it is
\* cut from (stem) and how many characters of it it holds.
QueryString(stem, len) == [stem |-> IF len = 0 THEN "" ELSE stem, len |-> len]

\* query[:n]
Slice(query, n) == QueryString(query.stem, Min(query.len, n))

\* f"{head}{body}{tail}"
Formatted(head, body, tail) == [head |-> head, body |-> body, tail |-> tail]

\* The path of a controller that would put the whole query into the step.
SimplePathWholeQuery(query) ==
    [steps |-> <<NewReasoningStep(1, Formatted("Analyzing: ", query, "..."), "deductive",
                                  (ConfUnit \div 10) * 7)>>,
     conclusion |-> Formatted("Analysis of: ", Slice(query, 50), "...")]

\* The generator-unavailable path: one step f"Analyzing: {query[:100]}...",
\* confidence 0.7, conclusion f"Analysis of: {query[:50]}...".
SimplePath(query) ==
    [steps |-> <<NewReasoningStep(1, Formatted("Analyzing: ", Slice(query, 100), "..."),
                                  "deductive", (ConfUnit \div 10) * 7)>>,
     conclusion |-> Formatted("Analysis of: ", Slice(query, 50), "...")]

\* The except branch: one step of confidence 0.5, "Processing complete".
FallbackChain(ch, ob, t) ==
    CompleteFromPath(ch, ob,
        <<NewReasoningStep(1, "Analyzing query: ...", "deductive", ConfUnit \div 2)>>,
        "Processing complete", t)

(***************************************************************************)
(* The parts of the state a run does not use stay at these values.          *)
(***************************************************************************)
NoSelArgs ==
    [query_given |-> FALSE, query |-> BlankQuery, emotion_state |-> NoAffect,
     load_given |-> FALSE, cognitive_load |-> 0, learning_readiness |-> None]

NoSelCall == [done |-> FALSE, args |-> NoSelArgs, out |-> SelectRaised(None)]

NoChain == NewReasoningChain(0)

NoRequest ==
    [query |-> QueryString("", 0), emotion_given |-> TRUE, thinking_mode |-> "hybrid",
     reasoning_tokens |-> 0, has_engine |-> FALSE]

NoDecision ==
    [done |-> FALSE, complexity |-> 0, emotion_factor |-> 0, load_factor |-> 0,
     readiness_factor |-> 0, mode |-> None, confidence |-> 0]

\* No estimate made yet; shorter holds the estimate a longer query was grown from.
NoShorter == [done |-> FALSE, query |-> BlankQuery, selector |-> 0, allocator |-> 0]

NoEstimate ==
    [done |-> FALSE, query |-> BlankQuery, selector |-> 0, allocator |-> 0,
     shorter |-> NoShorter]

SelIdle == sel = NoSelCall /\ dec = NoDecision /\ est = NoEstimate
ChainIdle == objs = <<>> /\ chain = NoChain /\ now = 0
SoloIdle ==
    /\ pc = "idle" /\ req = NoRequest /\ iteration = 0 /\ nodes = <<>>
    /\ selected = 0 /\ calls = 0 /\ fails = 0 /\ cancelled = FALSE /\ result = None
    /\ passes = <<>> /\ context = <<>>

Requests == {1, 2}

\* A returned chain as its caller reads it: the steps themselves, the
\* conclusion and the total confidence.
ChainView(ch, ob) ==
    [steps |-> [i \in 1..Len(ch.steps) |-> ob[ch.steps[i]]],
     conclusion |-> ch.conclusion,
     total_confidence |-> ch.total_confidence]

NoTask ==
    [pc |-> "idle", query_words |-> 0, max_steps |-> 0, root |-> 0, selected |-> 0,
     iteration |-> 0, log |-> <<>>, out |-> ChainView(NoChain, <<>>)]

NoHeap == [nodes |-> <<>>, owner |-> <<>>]

ConcIdle == tasks = [r \in Requests |-> NoTask] /\ heap = NoHeap

GenIdle == SoloIdle /\ ConcIdle

\* QdrantVectorStore(...) before connect(): no client, nothing stored.
NoStoreCall ==
    [op |-> None, message_id |-> [form |-> "plain", value |-> ""], ok |-> FALSE,
     had |-> FALSE, removed |-> {}, before |-> 0, after |-> 0]

NoStore == [initialized |-> FALSE, points |-> {}, held |-> {}, last |-> NoStoreCall]

StoreIdle == store = NoStore

(***************************************************************************)
(* Inputs of the allocator runs.                                            *)
(***************************************************************************)
ComplexitySteps == 5
LoadSteps == 5

\* Valid complexities 0.0 .. 1.0 on a grid, and one value on each side of it.
Complexities == {(10000 * i) \div ComplexitySteps : i \in 0..ComplexitySteps}
BadComplexities == {-1000, 11000}

\* Valid loads 0.0 .. 1.0 on a grid, and the out-of-range loads -0.5 and 1.5.
Loads == {(100 * i) \div LoadSteps : i \in 0..LoadSteps}
BadLoads == {-50, 150}

EmotionSamples ==
    {"confused", "anxious", "overwhelmed", "confident", "neutral", "focused"}

AffectSamples ==
    {NoAffect} \cup
    [primary_emotion : EmotionSamples, valence : {0},
     learning_readiness : {"not_ready", "moderate_readiness", "high_readiness"}]

ReadinessArgs == {None, "low_readiness", "optimal_readiness"}

SimpleQuery ==
    [blank |-> FALSE, words |-> 4, tech |-> 0, tech_extra |-> 0,
     has_complex |-> FALSE, has_simple |-> TRUE, qmarks |-> 1]

ComplexQuery ==
    [blank |-> FALSE, words |-> 150, tech |-> 5, tech_extra |-> 1,
     has_complex |-> TRUE, has_simple |-> FALSE, qmarks |-> 2]

QuerySamples == {BlankQuery, SimpleQuery, ComplexQuery}

\* Per-call provider ceilings: absent, a small model's and a large one's.
CeilingArgs == {0, 2000, 16384}

BudgetConfigs ==
    { DefaultBudgetConfig,
      [conservative_base |-> 2000, balanced_base |-> 3000, aggressive_base |-> 5000,
       reasoning_ratio_min |-> 20, reasoning_ratio_max |-> 50,
       provider_max_tokens |-> 2048, safety_margin |-> 80],
      [conservative_base |-> 3000, balanced_base |-> 5000, aggressive_base |-> 8000,
       reasoning_ratio_min |-> 60, reasoning_ratio_max |-> 80,
       provider_max_tokens |-> 16384, safety_margin |-> 95] }

\* (complexity, query) pairs: a complexity, else a query, else neither.
ComplexityOrQuery ==
    [complexity_given : {TRUE}, complexity : Complexities \cup BadComplexities,
     query_given : {FALSE}, query : {BlankQuery}]
    \cup [complexity_given : {FALSE}, complexity : {0},
          query_given : {TRUE}, query : QuerySamples]
    \cup [complexity_given : {FALSE}, complexity : {0},
          query_given : {FALSE}, query : {BlankQuery}]

AllocateArgs ==
    { [emotion_state |-> es, cognitive_load |-> l,
       complexity_given |-> cq.complexity_given, complexity |-> cq.complexity,
       query_given |-> cq.query_given, query |-> cq.query,
       mode |-> m, learning_readiness |-> lr, provider_max_tokens |-> pm] :
      es \in AffectSamples, l \in Loads \cup BadLoads, cq \in ComplexityOrQuery,
      m \in BudgetMode \cup {None}, lr \in ReadinessArgs, pm \in CeilingArgs }

NoArgs ==
    [emotion_state |-> NoAffect, cognitive_load |-> 0,
     complexity_given |-> FALSE, complexity |-> 0,
     query_given |-> FALSE, query |-> BlankQuery,
     mode |-> None, learning_readiness |-> None, provider_max_tokens |-> 0]

NoCall == [done |-> FALSE, args |-> NoArgs, out |-> Raised(None)]

(***************************************************************************)
(* The allocator as a state machine.  allocate_budget reads its arguments   *)
(* and the immutable config and writes nothing, so a run is one call, and   *)
(* optionally the same call once more with a higher complexity.             *)
(***************************************************************************)
BudgetInit ==
    /\ StoreIdle
    /\ cfg \in BudgetConfigs
    /\ call = NoCall
    /\ prev = NoCall
    /\ SelIdle /\ ChainIdle /\ GenIdle

\* allocator.allocate_budget(...)
Allocate ==
    /\ ~call.done
    /\ \E a \in AllocateArgs :
        /\ call' = [done |-> TRUE, args |-> a, out |-> AllocateBudget(cfg, a)]
        /\ prev' = NoCall
        /\ UNCHANGED <<cfg, selVars, storeVars, chainVars, genVars>>

\* The same call again, with a complexity at least as high and nothing else
\* changed.
AllocateMoreComplex ==
    /\ call.done
    /\ ~prev.done
    /\ call.args.complexity_given
    /\ \E c2 \in Complexities :
        /\ c2 >= call.args.complexity
        /\ LET a == [call.args EXCEPT !.complexity = c2]
           IN  call' = [done |-> TRUE, args |-> a, out |-> AllocateBudget(cfg, a)]
        /\ prev' = call
    /\ UNCHANGED <<cfg, selVars, storeVars, chainVars, genVars>>

BudgetNext == Allocate \/ AllocateMoreComplex

SpecBudget == BudgetInit /\ [][BudgetNext]_vars

BudgetIdle == cfg = DefaultBudgetConfig /\ call = NoCall /\ prev = NoCall

(***************************************************************************)
(* Claims about the allocator (checked under SpecBudget).                   *)
(***************************************************************************)
IsBudget(k) == k.done /\ k.out.kind = "TokenBudget"

\* C1: every budget allocate returns, the fallback budget included, has
\* reasoning_tokens + response_tokens = total_tokens exactly.
C1_SplitIsExact ==
    \A k \in {call, prev} :
        IsBudget(k) =>
            k.out.reasoning_tokens + k.out.response_tokens = k.out.total_tokens

\* A computed (not fallback) budget whose total times ratio is not a whole
\* number, so that the reasoning share was rounded.
C1_Witness ==
    /\ IsBudget(call)
    /\ ~call.out.fallback
    /\ (call.out.total_tokens * call.out.reasoning_ratio) % 100 # 0

\* The ceiling of a call: its provider_max_tokens, else the configured one.
CeilingOf(k) ==
    IF k.args.provider_max_tokens = 0 THEN cfg.provider_max_tokens
    ELSE k.args.provider_max_tokens

\* C2: for every ceiling, safety margin and valid input, the budget returned
\* has total_tokens <= ceiling x safety_margin.
C2_TotalWithinCeiling ==
    (IsBudget(call) /\ ~call.out.fallback) =>
        call.out.total_tokens * 100 <= CeilingOf(call) * cfg.safety_margin

\* C6: a numeric cognitive_load below 0 or above 1 makes allocate raise a
\* validation error, whatever the other arguments are; no budget is returned.
C6_BadLoadRejected ==
    (call.done /\ ~(0 <= call.args.cognitive_load /\ call.args.cognitive_load <= 100)) =>
        call.out.kind = "ValueError"

\* A call with an out-of-range load whose other arguments are all usable.
C6_Witness ==
    /\ call.done
    /\ call.args.cognitive_load \in BadLoads
    /\ call.args.emotion_state # NoAffect
    /\ call.args.complexity_given
    /\ call.args.complexity \in Complexities
    /\ call.args.mode # None
    /\ call.out.kind = "ValueError"

\* C10: of two calls that differ only in complexity, the one with the higher
\* complexity has at least the total_tokens and at least the reasoning ratio
\* of the other.
C10_MonotoneInComplexity ==
    (IsBudget(prev) /\ IsBudget(call)) =>
        /\ prev.args.complexity <= call.args.complexity
        /\ prev.out.total_tokens <= call.out.total_tokens
        /\ prev.out.reasoning_ratio <= call.out.reasoning_ratio

\* Two such calls, mode derived, where the total and the ratio both grew.
C10_Witness ==
    /\ IsBudget(prev)
    /\ IsBudget(call)
    /\ call.args.mode = None
    /\ prev.args.complexity < call.args.complexity
    /\ prev.out.mode # call.out.mode
    /\ prev.out.total_tokens < call.out.total_tokens
    /\ prev.out.reasoning_ratio < call.out.reasoning_ratio

(***************************************************************************)
(* Mode Selector: inputs and state machine                                  *)
(*                                                                         *)
(* sel records one select_thinking_mode call: its arguments and what the    *)
(* caller gets back.                                                        *)
(***************************************************************************)
ValenceSamples == {-100, 0, 26, 27, 73, 74, 100}

SelectEmotions == EmotionSamples \cup {"frustrated"}

SelectAffects ==
    {NoAffect} \cup
    [primary_emotion : SelectEmotions, valence : ValenceSamples,
     learning_readiness : {"moderate_readiness"}]

\* A load far outside the range: 10.0.
ExtremeLoads == {1000}

\* Loads next to the thresholds 0.4 and 0.7.
ThresholdLoads == {39, 70, 71}

\* cognitive_load: a number, in or out of range, or None.
SelectLoads ==
    {[load_given |-> TRUE, cognitive_load |-> l] :
        l \in Loads \cup ThresholdLoads \cup BadLoads \cup ExtremeLoads}
    \cup {[load_given |-> FALSE, cognitive_load |-> 0]}

\* "What is an algorithm?": one technical term in a four-word question.
TermQuery ==
    [blank |-> FALSE, words |-> 4, tech |-> 1, tech_extra |-> 0,
     has_complex |-> FALSE, has_simple |-> TRUE, qmarks |-> 1]

\* query: a string, or something that is not a string.
SelectQueries ==
    {[query_given |-> TRUE, query |-> q] : q \in QuerySamples \cup {TermQuery}}
    \cup {[query_given |-> FALSE, query |-> BlankQuery]}

SelectArgs ==
    {[query_given |-> q.query_given, query |-> q.query, emotion_state |-> es,
      load_given |-> l.load_given, cognitive_load |-> l.cognitive_load,
      learning_readiness |-> lr] :
        q \in SelectQueries, es \in SelectAffects, l \in SelectLoads,
        lr \in LearningReadiness \cup {None}}

SelectInit ==
    /\ StoreIdle
    /\ sel = NoSelCall /\ dec = NoDecision /\ est = NoEstimate
    /\ BudgetIdle /\ ChainIdle /\ GenIdle

Select ==
    /\ ~sel.done
    /\ \E a \in SelectArgs :
        sel' = [done |-> TRUE, args |-> a, out |-> SelectThinkingMode(a)]
    /\ UNCHANGED <<dec, est, storeVars, budgetVars, chainVars, genVars>>

SelectNext == Select

SpecSelect == SelectInit /\ [][SelectNext]_vars

(***************************************************************************)
(* Claims about the Mode Selector                                           *)
(***************************************************************************)
LoadOutOfRange(k) ==
    /\ k.done /\ k.args.query_given /\ k.args.load_given
    /\ (k.args.cognitive_load < 0 \/ k.args.cognitive_load > 100)

MaxStepObjects == 3
MaxChainLen == 3
MaxClock == 3

StepNumberSamples == {0, 1, 7}
ContentSamples == {"", "Step"}
ConfidenceSamples == {(ConfUnit \div 10) * 5, (ConfUnit \div 10) * 9}
ConclusionSamples == {"Answer A", "Answer B"}

ChainInit ==
    /\ StoreIdle
    /\ objs = <<>>
    /\ chain = NewReasoningChain(1)
    /\ now = 1
    /\ BudgetIdle /\ SelIdle /\ GenIdle

\* A caller constructs a ReasoningStep; a rejected construction leaves nothing.
CreateStep ==
    /\ Len(objs) < MaxStepObjects
    /\ \E n \in StepNumberSamples, content \in ContentSamples, conf \in ConfidenceSamples :
        /\ ReasoningStepOK(n, content, conf)
        /\ objs' = Append(objs, NewReasoningStep(n, content, "deductive", conf))
    /\ UNCHANGED <<chain, now, budgetVars, selVars, storeVars, genVars>>

\* chain.add_step(step) with any step object the caller holds.
AppendStep ==
    /\ Len(chain.steps) < MaxChainLen
    /\ \E id \in 1..Len(objs) :
        LET r == AddStep(chain, objs, id)
        IN  chain' = r.chain /\ objs' = r.objs
    /\ UNCHANGED <<now, budgetVars, selVars, storeVars, genVars>>

\* chain.mark_complete(conclusion); the clock has not gone back.
Complete ==
    /\ \E conclusion \in ConclusionSamples, t \in now..Min(now + 1, MaxClock) :
        /\ chain' = MarkComplete(chain, objs, conclusion, t)
        /\ now' = t
    /\ UNCHANGED <<objs, budgetVars, selVars, storeVars, genVars>>

ChainNext == CreateStep \/ AppendStep \/ Complete

SpecChain == ChainInit /\ [][ChainNext]_vars

(***************************************************************************)
(* Claims about the Reasoning Chain                                         *)
(***************************************************************************)

\* C7: after any sequence of add_step calls, whatever step_number each
\* incoming step carried, the step at position i of the chain is numbered i
\* (positions counted from 1).
C7_ContiguousNumbering ==
    \A i \in 1..Len(chain.steps) : objs[chain.steps[i]].step_number = i

SameFraction(f, g) == f.sum * g.n = g.sum * f.n

\* C8: once mark_complete has been applied, no later add_step or
\* mark_complete changes the chain's steps, conclusion, completed_at or
\* total_confidence.
C8_TerminalStateImmutable ==
    [][chain.completed_at # 0 =>
           /\ chain'.steps = chain.steps
           /\ chain'.conclusion = chain.conclusion
           /\ chain'.completed_at = chain.completed_at
           /\ SameFraction(chain'.total_confidence, chain.total_confidence)]_vars

(***************************************************************************)
(* generate_reasoning_chain: inputs and state machine                       *)
(*                                                                         *)
(* One request on one controller.  The request suspends only while a        *)
(* step-generation call is outstanding (pc = "await"); everything between   *)
(* two suspension points is one step.                                       *)
(***************************************************************************)
ReasoningTokenSamples == {800, 1600, 2400}

\* The query of the search runs: "What is an algorithm?"
SearchQuery == QueryString("What is an algorithm?", 21)

GenerateArgs ==
    [query : {SearchQuery}, emotion_given : BOOLEAN, thinking_mode : ThinkingMode,
     reasoning_tokens : ReasoningTokenSamples, has_engine : BOOLEAN]

TextSamples ==
    {BlankText,
     [content |-> "Therefore x = 4", words |-> 4, keywords |-> {"therefore"}],
     [content |-> "Notice the pattern ... because ... (60 words)", words |-> 60,
      keywords |-> {"notice", "pattern", "because"}],
     [content |-> "Add the two numbers", words |-> 4, keywords |-> {}]}

QueryWords == 4

MaxSteps == CalculateReasoningDepth(req.thinking_mode, req.reasoning_tokens)

\* A loop that would always run the engine's max_iterations.
IterationsUncapped == max_iterations

\* range(min(self.max_iterations, max_steps))
Iterations == Min(max_iterations, MaxSteps)

GenInit ==
    /\ StoreIdle
    /\ GenIdle
    /\ objs = <<>> /\ chain = NoChain /\ now = 1
    /\ BudgetIdle /\ SelIdle

\* emotion_state = None: building the chain's emotion_state dict reads
\* emotion_state.primary_emotion before the try block is entered.
RaisesOnNoEmotion(Args) ==
    /\ pc = "idle"
    /\ \E a \in Args :
        /\ ~a.emotion_given
        /\ req' = a
    /\ pc' = "raised"
    /\ result' = "AttributeError"
    /\ UNCHANGED <<iteration, nodes, selected, calls, fails, cancelled,
                   chainVars, budgetVars, selVars, storeVars, concVars, passes, context>>

StartRaises == RaisesOnNoEmotion(GenerateArgs)

\* No step generator configured: the one-step path, added and completed
\* without suspending.
ReturnsSimplePath(Args) ==
    /\ pc = "idle"
    /\ \E a \in Args, t \in now..Min(now + 1, MaxClock) :
        /\ a.emotion_given /\ ~a.has_engine
        /\ req' = a
        /\ LET r == CompleteFromPath(NewReasoningChain(now), objs, SimplePath(a.query).steps,
                                     SimplePath(a.query).conclusion, t)
           IN  chain' = r.chain /\ objs' = r.objs
        /\ now' = t
    /\ pc' = "returned"
    /\ result' = "no_engine"
    /\ UNCHANGED <<iteration, nodes, selected, calls, fails, cancelled,
                   budgetVars, selVars, storeVars, concVars, passes, context>>

StartNoEngine == ReturnsSimplePath(GenerateArgs)

\* The chain is created and the search starts from the root node.
StartSearch ==
    /\ pc = "idle"
    /\ \E a \in GenerateArgs :
        /\ a.emotion_given /\ a.has_engine
        /\ req' = a
    /\ chain' = NewReasoningChain(now)
    /\ nodes' = <<RootNode(QueryWords)>>
    /\ iteration' = 0
    /\ pc' = "search"
    /\ UNCHANGED <<selected, calls, fails, cancelled, result, objs, now,
                   budgetVars, selVars, storeVars, concVars, passes, context>>

\* Head of one loop iteration: selection, then either the expansion's
\* step-generation call is issued, or (selected node already at max_steps)
\* simulation and backpropagation run on the selected node.
Iterate ==
    /\ pc = "search"
    /\ iteration < Iterations
    /\ LET leaf == SelectLeaf(1, nodes)
       IN  IF nodes[leaf].depth < MaxSteps
           THEN /\ selected' = leaf
                /\ calls' = calls + 1
                /\ pc' = "await"
                /\ context' = PathContext(leaf, nodes)
                /\ UNCHANGED <<nodes, iteration, passes>>
           ELSE /\ nodes' = EvaluateOnly(nodes, leaf)
                /\ passes' = Append(passes, [node |-> leaf, value |-> Simulate(leaf, nodes)])
                /\ iteration' = iteration + 1
                /\ UNCHANGED <<selected, calls, pc, context>>
    /\ UNCHANGED <<req, fails, cancelled, result, chainVars, budgetVars, selVars, storeVars, concVars>>

\* The step generator answers: the new node becomes the selected node's
\* child, is simulated and backpropagated.
GenerateReturns ==
    /\ pc = "await"
    /\ \E text \in TextSamples : nodes' = ExpandAndEvaluate(nodes, selected, text)
    /\ passes' = Append(passes, [node |-> Len(nodes) + 1,
                                 value |-> Simulate(Len(nodes) + 1, nodes')])
    /\ iteration' = iteration + 1
    /\ selected' = 0
    /\ pc' = "search"
    /\ UNCHANGED <<req, calls, fails, cancelled, result, context,
                   chainVars, budgetVars, selVars, storeVars, concVars>>

\* The step generator raises: _expand returns None, the selected node itself
\* is simulated and backpropagated.
GenerateFails ==
    /\ pc = "await"
    /\ nodes' = EvaluateOnly(nodes, selected)
    /\ passes' = Append(passes, [node |-> selected, value |-> Simulate(selected, nodes)])
    /\ fails' = fails + 1
    /\ iteration' = iteration + 1
    /\ selected' = 0
    /\ pc' = "search"
    /\ UNCHANGED <<req, calls, cancelled, result, context,
                   chainVars, budgetVars, selVars, storeVars, concVars>>

\* The loop is over: the best path is extracted and the chain completed from
\* it; a step the path cannot hold sends the request through the except branch.
FinishSearch ==
    /\ pc = "search"
    /\ iteration = Iterations
    /\ \E t \in now..Min(now + 1, MaxClock) :
        LET path == ExtractBestPath(nodes)
            r == IF path.ok
                 THEN CompleteFromPath(chain, objs, path.steps, path.conclusion, t)
                 ELSE FallbackChain(chain, objs, t)
        IN  /\ chain' = r.chain
            /\ objs' = r.objs
            /\ now' = t
            /\ result' = IF path.ok THEN "search" ELSE "except"
    /\ pc' = "returned"
    /\ UNCHANGED <<req, iteration, nodes, selected, calls, fails, cancelled,
                   budgetVars, selVars, storeVars, concVars, passes, context>>

\* cancel(chainId) while the request is in flight: the signal is set.
Cancel ==
    /\ pc \in {"search", "await"}
    /\ ~cancelled
    /\ cancelled' = TRUE
    /\ UNCHANGED <<pc, req, iteration, nodes, selected, calls, fails, result,
                   chainVars, budgetVars, selVars, storeVars, concVars, passes, context>>

GenNext ==
    \/ StartRaises \/ StartNoEngine \/ StartSearch
    \/ Iterate \/ GenerateReturns \/ GenerateFails \/ FinishSearch
    \/ Cancel

SpecGen == GenInit /\ [][GenNext]_vars

(***************************************************************************)
(* Claims about generate_reasoning_chain                                    *)
(***************************************************************************)
HalfConfidence == ConfUnit \div 2

\* C3: generate_reasoning_chain never raises, whatever the query, affect
\* state (a null one included), thinking mode, token budget and step
\* generator do: it returns a ReasoningChain, and a failure is answered with a
\* completed chain of one step of confidence 0.5.
C3_NeverRaises ==
    /\ pc # "raised"
    /\ (pc = "returned" /\ result = "except") =>
           /\ Len(chain.steps) = 1
           /\ objs[chain.steps[1]].confidence = HalfConfidence
           /\ chain.completed_at # 0

\* C4: when every step-generation call of a request fails, the returned chain
\* still has at least one step and a completion timestamp.
C4_AllCallsFailStillOneStep ==
    (pc = "returned" /\ calls > 0 /\ fails = calls) =>
        Len(chain.steps) >= 1 /\ chain.completed_at # 0

\* C9: once cancel has been signalled during a search, the loop observes it
\* between iterations: from the head of the loop no further step-generation
\* call is started and no further iteration is run.
C9_CancelStopsSearch ==
    [][(cancelled /\ pc = "search") =>
           calls' = calls /\ iteration' = iteration]_vars

(***************************************************************************)
(* The decision tree on its own: _make_decision applied to every            *)
(* combination of factors of a grid that holds each threshold and its       *)
(* neighbours.                                                              *)
(***************************************************************************)
FactorSteps == 5

ThresholdFactors ==
    {2400, 2500, 2600, 3400, 3500, 3600, 3900, 4000, 4100, 6000, 6100,
     6900, 7000, 7100}

Factors == {(10000 * i) \div FactorSteps : i \in 0..FactorSteps} \cup ThresholdFactors

DecideInit ==
    /\ StoreIdle
    /\ sel = NoSelCall /\ dec = NoDecision /\ est = NoEstimate
    /\ BudgetIdle /\ ChainIdle /\ GenIdle

Decide ==
    /\ ~dec.done
    /\ \E c \in Factors, e \in Factors, l \in Factors, r \in Factors :
        LET d == MakeDecision(c, e, l, r)
        IN  dec' = [done |-> TRUE, complexity |-> c, emotion_factor |-> e,
                    load_factor |-> l, readiness_factor |-> r,
                    mode |-> d[1], confidence |-> d[2]]
    /\ UNCHANGED <<sel, est, storeVars, budgetVars, chainVars, genVars>>

DecideNext == Decide

SpecDecide == DecideInit /\ [][DecideNext]_vars

\* 0.30 * complexity + 0.25 * emotion + 0.25 * load + 0.20 * readiness, in
\* millionths.
WeightedScore(d) ==
    30 * d.complexity + 25 * d.emotion_factor + 25 * d.load_factor
    + 20 * d.readiness_factor

Decided(k) ==
    /\ k.done /\ k.args.query_given /\ k.args.load_given
    /\ k.args.emotion_state # NoAffect
    /\ 0 <= k.args.cognitive_load /\ k.args.cognitive_load <= 100

StrugglingEmotion == {"confused", "frustrated", "anxious"}

ConfidentOptimalLowLoad(k) ==
    /\ Decided(k)
    /\ k.args.emotion_state.primary_emotion = "confident"
    /\ k.args.learning_readiness = "optimal_readiness"
    /\ k.args.cognitive_load < 40

\* C13 (as stated): whenever the primary emotion is confident, readiness is
\* OPTIMAL, cognitive load is below 0.4 and the query's complexity is below
\* 0.3, the mode selected is Fast.
C13_ConfidentLowComplexityIsFast ==
    (ConfidentOptimalLowLoad(sel) /\ sel.out.complexity_score < 3000)
    => sel.out.mode = "system1"

\* C13 (amended): whenever the primary emotion is confident, readiness is
\* OPTIMAL, cognitive load is below 0.4 and the query's complexity is below
\* 0.25, the mode selected is Fast.
C13_ConfidentUltraSimpleIsFast ==
    (ConfidentOptimalLowLoad(sel) /\ sel.out.complexity_score < 2500)
    => sel.out.mode = "system1" /\ sel.out.kind = "ThinkingDecision"

\* The least favourable confident case: valence -1 and load just below 0.4,
\* where only the ultra-simple rule selects Fast.
C13_Witness ==
    /\ ConfidentOptimalLowLoad(sel)
    /\ sel.args.emotion_state.valence = -100
    /\ sel.args.cognitive_load = 39
    /\ sel.args.query = SimpleQuery
    /\ sel.out.mode = "system1" /\ sel.out.confidence = 90

(***************************************************************************)
(* The allocator at the thresholds of its mode derivation: allocate_budget  *)
(* with a given complexity, over every emotion tag the derivation reads and *)
(* over loads and complexities on both sides of each threshold.             *)
(***************************************************************************)
ModeEmotions == EmotionSamples \cup {"frustrated", "engaged"}

ModeAffects ==
    [primary_emotion : ModeEmotions, valence : {0},
     learning_readiness : {"low_readiness", "high_readiness"}]

ThresholdComplexities == {2900, 3000, 3100, 6000, 6100, 6900, 7000, 7100}

ModeArgs ==
    {[emotion_state |-> es, cognitive_load |-> l, complexity_given |-> TRUE,
      complexity |-> c, query_given |-> FALSE, query |-> BlankQuery,
      mode |-> md, learning_readiness |-> lr, provider_max_tokens |-> 0] :
        es \in ModeAffects, l \in Loads \cup ThresholdLoads,
        c \in Complexities \cup ThresholdComplexities,
        md \in BudgetMode \cup {None}, lr \in LearningReadiness \cup {None}}

BudgetModeInit ==
    /\ StoreIdle
    /\ cfg \in BudgetConfigs
    /\ call = NoCall
    /\ prev = NoCall
    /\ SelIdle /\ ChainIdle /\ GenIdle

AllocateAtThreshold ==
    /\ ~call.done
    /\ \E a \in ModeArgs :
        call' = [done |-> TRUE, args |-> a, out |-> AllocateBudget(cfg, a)]
    /\ UNCHANGED <<cfg, prev, selVars, storeVars, chainVars, genVars>>

BudgetModeNext == AllocateAtThreshold

SpecBudgetMode == BudgetModeInit /\ [][BudgetModeNext]_vars

\* The readiness a call works with: the argument, else the affect state's.
ReadinessOf(k) ==
    IF k.args.learning_readiness = None THEN k.args.emotion_state.learning_readiness
    ELSE k.args.learning_readiness

StrugglingCall(k) ==
    \/ k.args.emotion_state.primary_emotion \in StrugglingEmotion
    \/ ReadinessOf(k) \in {"low_readiness", "not_ready"}
    \/ k.args.cognitive_load > 70

ConfidentCall(k) ==
    /\ k.args.emotion_state.primary_emotion \in {"confident", "engaged"}
    /\ ReadinessOf(k) \in {"high_readiness", "optimal_readiness"}
    /\ k.args.cognitive_load < 40

\* C14: without an explicit mode the budget mode is Aggressive if the affect
\* is struggling (emotion confused/frustrated/anxious, or readiness
\* LOW/NOT_READY, or load > 0.7) or complexity > 0.7; otherwise Conservative
\* if the emotion is confident/engaged, readiness HIGH/OPTIMAL, load < 0.4 and
\* complexity < 0.3; otherwise Balanced.  An explicit mode is used unchanged.
C14_BudgetModeDerivation ==
    (IsBudget(call) /\ ~call.out.fallback /\ call.args.emotion_state # NoAffect) =>
        IF call.args.mode # None THEN call.out.mode = call.args.mode
        ELSE IF StrugglingCall(call) \/ call.out.complexity_score > 7000
             THEN call.out.mode = "aggressive"
        ELSE IF ConfidentCall(call) /\ call.out.complexity_score < 3000
             THEN call.out.mode = "conservative"
        ELSE call.out.mode = "balanced"

\* Struggling through the load alone, on the simplest query.
C14_Witness ==
    /\ IsBudget(call) /\ call.args.mode = None
    /\ call.args.emotion_state.primary_emotion = "confident"
    /\ ReadinessOf(call) = "optimal_readiness"
    /\ call.args.cognitive_load = 71
    /\ call.out.complexity_score = 0
    /\ call.out.mode = "aggressive"

(***************************************************************************)
(* The two complexity estimators side by side: a query is drawn and both    *)
(* _analyze_complexity (Mode Selector) and _estimate_complexity (Budget     *)
(* Allocator) are applied to it.                                            *)
(***************************************************************************)
MaxTech == 4
MaxQmarks == 2

WordSamples == {1, 4, 49, 50, 51, 100, 101, 150, 1000}

\* Non-blank query texts by their signals; a term of the Mode Selector's
\* additional lexicon may come on top of the shared lexicon's hits.
QueryTexts ==
    [blank : {FALSE}, words : WordSamples, tech : 0..MaxTech, tech_extra : 0..1,
     has_complex : BOOLEAN, has_simple : BOOLEAN, qmarks : 0..MaxQmarks]
    \cup {BlankQuery}

EstimateInit ==
    /\ StoreIdle
    /\ sel = NoSelCall /\ dec = NoDecision /\ est = NoEstimate
    /\ BudgetIdle /\ ChainIdle /\ GenIdle

Estimate ==
    /\ ~est.done
    /\ \E q \in QueryTexts :
        est' = [done |-> TRUE, query |-> q, selector |-> AnalyzeComplexity(q),
                allocator |-> EstimateComplexity(q), shorter |-> NoShorter]
    /\ UNCHANGED <<sel, dec, storeVars, budgetVars, chainVars, genVars>>

\* Words are added to the query, its other signals staying as they are, and
\* both estimators are applied to the longer text.
EstimateLonger ==
    /\ est.done /\ ~est.shorter.done /\ ~est.query.blank
    /\ \E w \in WordSamples :
        /\ w > est.query.words
        /\ LET q == [est.query EXCEPT !.words = w]
           IN  est' = [done |-> TRUE, query |-> q, selector |-> AnalyzeComplexity(q),
                       allocator |-> EstimateComplexity(q),
                       shorter |-> [done |-> TRUE, query |-> est.query,
                                    selector |-> est.selector,
                                    allocator |-> est.allocator]]
    /\ UNCHANGED <<sel, dec, storeVars, budgetVars, chainVars, genVars>>

EstimateNext == Estimate \/ EstimateLonger

SpecEstimate == EstimateInit /\ [][EstimateNext]_vars

\* C15: both complexity estimators return a score in [0, 1] for every query
\* text, and exactly 0.0 for an empty or whitespace-only one.
C15_ComplexityInUnitRange ==
    est.done =>
        /\ 0 <= est.selector /\ est.selector <= 10000
        /\ 0 <= est.allocator /\ est.allocator <= 10000
        /\ est.query.blank => est.selector = 0 /\ est.allocator = 0

\* The query with every signal saturated: both estimators give 0.84.
C15_Witness ==
    /\ est.done
    /\ est.query.words = 1000 /\ est.query.tech >= 3 /\ est.query.has_complex
    /\ est.query.qmarks = 2
    /\ est.selector = 8400 /\ est.allocator = 8400

(***************************************************************************)
(* Two generate_reasoning_chain requests in flight on one controller        *)
(*                                                                         *)
(* The controller and its engine are shared; a request suspends only while  *)
(* a step-generation call is outstanding, and the other request may run     *)
(* between the call and its answer.  Every MCTSNode either request          *)
(* allocates lives in the one heap; what a request can reach in it is what  *)
(* its local variables (root, selected_node) refer to.                      *)
(***************************************************************************)
ConcurrentArgs == [thinking_mode : {"system1", "hybrid"}, reasoning_tokens : {800}]

ConcurrentTexts == {t \in TextSamples : t.keywords # {}}

\* A root the engine would keep for all its requests: the first node allocated.
SearchRootShared(tk) == 1

\* root = MCTSNode(...): a local variable of the request.
SearchRoot(tk) == tk.root

ConcInit ==
    /\ StoreIdle
    /\ GenIdle
    /\ objs = <<>> /\ chain = NoChain /\ now = 1
    /\ BudgetIdle /\ SelIdle

\* The request enters the engine and allocates its root.  Request r asks a
\* query of QueryWords + r words.
ConcStart(r) ==
    /\ tasks[r].pc = "idle"
    /\ \E a \in ConcurrentArgs :
        tasks' = [tasks EXCEPT ![r] =
                     [@ EXCEPT !.pc = "search",
                               !.query_words = QueryWords + r,
                               !.max_steps = CalculateReasoningDepth(a.thinking_mode,
                                                                     a.reasoning_tokens),
                               !.root = Len(heap.nodes) + 1]]
    /\ heap' = [nodes |-> Append(heap.nodes, RootNode(QueryWords + r)),
                owner |-> Append(heap.owner, r)]
    /\ UNCHANGED <<soloVars, chainVars, budgetVars, selVars, storeVars>>

\* Head of one loop iteration of request r, up to its suspension point.
ConcIterate(r) ==
    /\ tasks[r].pc = "search"
    /\ tasks[r].iteration < Min(max_iterations, tasks[r].max_steps)
    /\ LET leaf == SelectLeaf(SearchRoot(tasks[r]), heap.nodes)
       IN  IF heap.nodes[leaf].depth < tasks[r].max_steps
           THEN /\ tasks' = [tasks EXCEPT ![r].selected = leaf, ![r].pc = "await"]
                /\ UNCHANGED heap
           ELSE /\ heap' = [heap EXCEPT !.nodes = EvaluateOnly(@, leaf)]
                /\ tasks' = [tasks EXCEPT ![r].iteration = @ + 1]
    /\ UNCHANGED <<soloVars, chainVars, budgetVars, selVars, storeVars>>

\* The step generator answers request r.
ConcGenerateReturns(r) ==
    /\ tasks[r].pc = "await"
    /\ \E text \in ConcurrentTexts :
        /\ heap' = [nodes |-> ExpandAndEvaluate(heap.nodes, tasks[r].selected, text),
                    owner |-> Append(heap.owner, r)]
        /\ tasks' = [tasks EXCEPT ![r] =
                        [@ EXCEPT !.pc = "search", !.selected = 0,
                                  !.iteration = @ + 1,
                                  !.log = Append(@, [raised |-> FALSE, text |-> text])]]
    /\ UNCHANGED <<soloVars, chainVars, budgetVars, selVars, storeVars>>

\* The step generator raises on request r's call.
ConcGenerateFails(r) ==
    /\ tasks[r].pc = "await"
    /\ heap' = [heap EXCEPT !.nodes = EvaluateOnly(@, tasks[r].selected)]
    /\ tasks' = [tasks EXCEPT ![r] =
                    [@ EXCEPT !.pc = "search", !.selected = 0,
                              !.iteration = @ + 1,
                              !.log = Append(@, [raised |-> TRUE, text |-> BlankText])]]
    /\ UNCHANGED <<soloVars, chainVars, budgetVars, selVars, storeVars>>

\* Request r's loop is over: its best path is extracted and its chain (a
\* local of the controller's method, like its step objects) is completed.
ConcFinish(r) ==
    /\ tasks[r].pc = "search"
    /\ tasks[r].iteration = Min(max_iterations, tasks[r].max_steps)
    /\ LET path == ExtractBestPathFrom(SearchRoot(tasks[r]), heap.nodes)
           c == IF path.ok
                THEN CompleteFromPath(NewReasoningChain(now), <<>>, path.steps,
                                      path.conclusion, now)
                ELSE FallbackChain(NewReasoningChain(now), <<>>, now)
       IN  tasks' = [tasks EXCEPT ![r].pc = "returned",
                                  ![r].out = ChainView(c.chain, c.objs)]
    /\ UNCHANGED <<heap, soloVars, chainVars, budgetVars, selVars, storeVars>>

ConcNext ==
    \E r \in Requests :
        \/ ConcStart(r) \/ ConcIterate(r)
        \/ ConcGenerateReturns(r) \/ ConcGenerateFails(r)
        \/ ConcFinish(r)

SpecConcurrent == ConcInit /\ [][ConcNext]_vars

\* The search loop of a request that runs alone, fed the answers of log in
\* order: the tree it ends with.
RECURSIVE SoloSearch(_, _, _, _)
SoloSearch(nd, max_steps, left, log) ==
    IF left = 0 THEN nd
    ELSE LET leaf == SelectLeaf(1, nd)
         IN  IF nd[leaf].depth < max_steps
             THEN SoloSearch(IF Head(log).raised THEN EvaluateOnly(nd, leaf)
                             ELSE ExpandAndEvaluate(nd, leaf, Head(log).text),
                             max_steps, left - 1, Tail(log))
             ELSE SoloSearch(EvaluateOnly(nd, leaf), max_steps, left - 1, log)

\* The chain the request of task tk returns when nothing else runs on the
\* controller and the step generator gives it the answers tk.log records.
RunAlone(tk) ==
    LET nd == SoloSearch(<<RootNode(tk.query_words)>>, tk.max_steps,
                         Min(max_iterations, tk.max_steps), tk.log)
        path == ExtractBestPath(nd)
        c == IF path.ok
             THEN CompleteFromPath(NewReasoningChain(now), <<>>, path.steps,
                                   path.conclusion, now)
             ELSE FallbackChain(NewReasoningChain(now), <<>>, now)
    IN  ChainView(c.chain, c.objs)

\* The nodes of the tree below (and including) a node.
RECURSIVE Subtree(_, _)
Subtree(id, nd) ==
    {id} \cup UNION {Subtree(nd[id].children[i], nd) : i \in 1..Len(nd[id].children)}

\* C16: two requests on the same controller that interleave at their
\* step-generation suspension points share no mutable state: the tree under
\* a request's root holds only nodes that request allocated, and a request
\* returns the chain it returns when run alone with the same generator answers.
C16_RequestsShareNoState ==
    \A r \in Requests :
        /\ tasks[r].root # 0 =>
               \A n \in Subtree(tasks[r].root, heap.nodes) : heap.owner[n] = r
        /\ tasks[r].pc = "returned" => tasks[r].out = RunAlone(tasks[r])

\* Both requests have returned different chains of two or more steps, and
\* their node allocations alternated: 1, then 2, then 1 again.
C16_Witness ==
    /\ \A r \in Requests : tasks[r].pc = "returned" /\ Len(tasks[r].out.steps) >= 2
    /\ tasks[1].out # tasks[2].out
    /\ \E i, j, k \in 1..Len(heap.owner) :
        /\ i < j /\ j < k
        /\ heap.owner[i] = 1 /\ heap.owner[j] = 2 /\ heap.owner[k] = 1

(***************************************************************************)
(* generate_reasoning_chain on a controller built without provider_manager  *)
(* (self.mcts_engine is None), for queries on both sides of the 50 and 100  *)
(* character slices.                                                        *)
(***************************************************************************)
QueryLengths == {0, 5, 50, 51, 100, 101, 250}

QueryStrings ==
    {QueryString(stem, n) : stem \in {"Explain how photosynthesis works ...",
                                      "What is an algorithm? ..."},
                            n \in QueryLengths}

NoEngineArgs ==
    [query : QueryStrings, emotion_given : BOOLEAN, thinking_mode : ThinkingMode,
     reasoning_tokens : ReasoningTokenSamples, has_engine : {FALSE}]

NoEngineRaises == RaisesOnNoEmotion(NoEngineArgs)

NoEngineReturns == ReturnsSimplePath(NoEngineArgs)

NoEngineNext == NoEngineRaises \/ NoEngineReturns

SpecNoEngine == GenInit /\ [][NoEngineNext]_vars

\* The only step of the chain.
OnlyStep == objs[chain.steps[1]]

DepthLimit(thinking_mode) ==
    CASE thinking_mode = "system1" -> 2
      [] thinking_mode = "system2" -> 8
      [] OTHER -> 5

\* Reasoning-token budgets from 0 to 6000 in steps of 100.
DepthTokens == {100 * i : i \in 0..60}

\* C18: whatever the step generator does, the path the search would extract
\* never has more than max_steps steps, so the chain generate_reasoning_chain
\* returns has at most the budget-derived depth: 2 steps in system1, at most
\* 8 in system2, at most 5 in hybrid.
C18_PathWithinMaxSteps ==
    /\ \A mode \in ThinkingMode, tokens \in DepthTokens :
           CalculateReasoningDepth(mode, tokens) <= DepthLimit(mode)
    /\ pc \in {"search", "await"} => Len(BestPathNodes(1, nodes)) <= MaxSteps
    /\ pc = "returned" =>
           /\ Len(chain.steps) <= MaxSteps
           /\ Len(chain.steps) <= DepthLimit(req.thinking_mode)

\* A system1 search whose two step-generation calls both answered: the
\* returned chain has exactly the two steps the mode allows.
C18_Witness ==
    /\ pc = "returned" /\ result = "search"
    /\ req.thinking_mode = "system1"
    /\ calls = 2 /\ fails = 0
    /\ Len(chain.steps) = 2 /\ MaxSteps = 2

(***************************************************************************)
(* The ranges the BudgetMode docstring gives for the default configuration  *)
(***************************************************************************)

\* C19: for every affect, load, readiness and complexity, the total budget
\* allocated under the default configuration stays in its mode's documented
\* range: at most 3000 tokens in CONSERVATIVE mode, between 3000 and 5000 in
\* BALANCED mode, at least 5000 in AGGRESSIVE mode.
C19_TotalInModeRange ==
    (call.done /\ cfg = DefaultBudgetConfig /\ call.out.kind = "TokenBudget") =>
        CASE call.out.mode = "conservative" -> call.out.total_tokens <= 3000
          [] call.out.mode = "balanced" ->
                 3000 <= call.out.total_tokens /\ call.out.total_tokens <= 5000
          [] call.out.mode = "aggressive" -> call.out.total_tokens >= 5000
          [] OTHER -> FALSE

(***************************************************************************)
(* Extreme cognitive loads given to the Mode Selector                       *)
(***************************************************************************)

\* C20: select_thinking_mode rejects a numeric cognitive_load outside [0, 1]
\* (-0.5, 1.5, 10.0) by raising ValueError and returns no decision; for a
\* string query the error is the one of the cognitive-load check.
C20_ExtremeLoadRejected ==
    \A l \in BadLoads \cup ExtremeLoads :
        (sel.done /\ sel.args.load_given /\ sel.args.cognitive_load = l) =>
            /\ sel.out.kind = "ValueError"
            /\ sel.args.query_given => sel.out.why = "cognitive_load"

\* A call with cognitive_load = 10.0, a string query and an affect state has
\* been answered with the cognitive-load ValueError.
C20_Witness ==
    /\ sel.done /\ sel.args.query_given /\ sel.args.load_given
    /\ sel.args.cognitive_load = 1000
    /\ sel.args.emotion_state # NoAffect
    /\ sel.out.kind = "ValueError" /\ sel.out.why = "cognitive_load"

(***************************************************************************)
(* Step-generation calls of one search                                      *)
(***************************************************************************)

\* C21: no retries.  In one search every iteration issues at most one
\* step-generation call, so at most N = min(max_iterations, max_steps) calls
\* are made in total; a call that fails ends its iteration and is not
\* repeated.
C21_NoRetries ==
    /\ [](pc \in {"search", "await", "returned"} =>
            /\ calls <= Min(max_iterations, MaxSteps)
            /\ calls <= iteration + (IF pc = "await" THEN 1 ELSE 0)
            /\ fails <= calls)
    /\ [][fails' # fails =>
            /\ fails' = fails + 1
            /\ iteration' = iteration + 1
            /\ calls' = calls
            /\ pc' = "search"]_vars

\* A system2 search of six iterations has returned after six calls, two of
\* which failed.
C21_Witness ==
    /\ pc = "returned" /\ req.has_engine
    /\ Min(max_iterations, MaxSteps) = 6
    /\ calls = 6 /\ fails = 2 /\ iteration = 6

(***************************************************************************)
(* Visit counts and cumulative values against the history of passes         *)
(***************************************************************************)

\* The nodes a pass started at id goes through: id and its ancestors.
RECURSIVE PathToRoot(_, _)
PathToRoot(id, nd) == IF id = 0 THEN {} ELSE {id} \cup PathToRoot(nd[id].parent, nd)

\* The passes (indices into the history) that went through node n.
PassesThrough(n) == {i \in 1..Len(passes) : n \in PathToRoot(passes[i].node, nodes)}

RECURSIVE SumOfValues(_)
SumOfValues(is) ==
    IF is = {} THEN 0
    ELSE LET i == CHOOSE j \in is : TRUE
         IN  passes[i].value + SumOfValues(is \ {i})

\* C22: at every point of a search each node's visits is the number of
\* backpropagation passes that went through it and its value the sum of the
\* values those passes carried; the root's visits is the number of completed
\* iterations.
C22_VisitsCountPasses ==
    nodes # <<>> =>
        /\ \A n \in 1..Len(nodes) :
            /\ nodes[n].visits = Cardinality(PassesThrough(n))
            /\ nodes[n].value = SumOfValues(PassesThrough(n))
        /\ nodes[1].visits = iteration

\* Three passes have run: one started at the root (its call failed), one at
\* the root's child, one at the grandchild.
C22_Witness ==
    /\ pc = "search" /\ iteration = 3 /\ Len(nodes) = 3
    /\ nodes[1].visits = 3 /\ nodes[2].visits = 2 /\ nodes[3].visits = 1
    /\ passes[1].node = 1 /\ passes[1].value > 0

(***************************************************************************)
(* What the search itself returns                                           *)
(***************************************************************************)

\* The loop of the search is over.
SearchLoopDone == pc \in {"search", "returned"} /\ nodes # <<>> /\ iteration = Iterations

\* C23: whatever the step-generation calls do (raise, or return any text,
\* empty or whitespace-only text included), the search runs all N iterations
\* and _extract_best_path returns a ReasoningPath without raising; when no
\* expansion succeeded the path has no steps and its conclusion is
\* "No reasoning steps generated".
C23_SearchNeverRaises ==
    /\ (pc = "returned" /\ req.has_engine) => iteration = Iterations
    /\ SearchLoopDone =>
           /\ ExtractBestPath(nodes).ok
           /\ Len(nodes) = 1 =>
                  /\ ExtractBestPath(nodes).steps = <<>>
                  /\ ExtractBestPath(nodes).conclusion = "No reasoning steps generated"

\* C24: whenever a search returns, the extracted path has as many steps as
\* step-generation calls succeeded during the search; when every call
\* succeeded that is exactly min(max_iterations, max_steps).
C24_PathLengthIsSuccessCount ==
    (SearchLoopDone /\ ExtractBestPath(nodes).ok) =>
        /\ Len(ExtractBestPath(nodes).steps) = calls - fails
        /\ fails = 0 => Len(ExtractBestPath(nodes).steps) = Min(max_iterations, MaxSteps)
        /\ (pc = "returned" /\ result = "search") => Len(chain.steps) = calls - fails

\* A search of six iterations in which two calls failed has returned a chain
\* of four steps.
C24_Witness ==
    /\ pc = "returned" /\ result = "search"
    /\ calls = 6 /\ fails = 2
    /\ Len(ExtractBestPath(nodes).steps) = 4 /\ Len(chain.steps) = 4

\* C25: in every reachable state of a search the tree is a single chain:
\* every node has at most one child, a child is one level below its parent
\* and the root has depth 0, so neither _select nor _extract_best_path ever
\* has two children to choose between.
C25_TreeIsChain ==
    nodes # <<>> =>
        /\ nodes[1].depth = 0 /\ nodes[1].parent = 0
        /\ \A n \in 1..Len(nodes) :
            /\ Len(nodes[n].children) <= 1
            /\ \A i \in 1..Len(nodes[n].children) :
                   /\ nodes[nodes[n].children[i]].parent = n
                   /\ nodes[nodes[n].children[i]].depth = nodes[n].depth + 1

\* A chain of three nodes below the root, the last at depth 3.
C25_Witness ==
    /\ Len(nodes) = 4
    /\ \A n \in 1..3 : nodes[n].children = <<n + 1>>
    /\ nodes[4].children = <<>> /\ nodes[4].depth = 3

(***************************************************************************)
(* The path context of a step-generation call                               *)
(***************************************************************************)

\* The node ids from the root's child down to id, in root-to-node order.
RECURSIVE PathFromRoot(_, _)
PathFromRoot(id, nd) ==
    IF nd[id].parent = 0 THEN <<>>
    ELSE Append(PathFromRoot(nd[id].parent, nd), id)

\* C26: the path context passed to a step-generation call lists exactly the
\* contents of the nodes from the root's child down to the selected node, in
\* root-to-node order, labelled Step 1 ... Step d in that same order, and is
\* "No previous steps" when the selected node is the root.
C26_ContextInPathOrder ==
    pc = "await" =>
        LET path == PathFromRoot(selected, nodes)
        IN  IF path = <<>> THEN context = <<ContextLine(0, "No previous steps")>>
            ELSE context = [i \in 1..Len(path) |-> ContextLine(i, nodes[path[i]].content)]

(***************************************************************************)
(* A missing cognitive load given to the Mode Selector                      *)
(***************************************************************************)

\* C27: when cognitive_load is None, select_thinking_mode substitutes
\* load_factor 0.5 and still derives mode, confidence and complexity_score
\* from the actual query, emotion and readiness through the decision tree.
C27_MissingLoadStillDecides ==
    (sel.done /\ sel.args.query_given /\ ~sel.args.load_given) =>
        LET complexity == AnalyzeComplexity(sel.args.query)
            decision == MakeDecision(complexity, AnalyzeEmotion(sel.args.emotion_state),
                                     5000, AnalyzeReadiness(sel.args.learning_readiness))
        IN  /\ sel.out.kind = "ThinkingDecision"
            /\ sel.out.load_factor = 5000
            /\ sel.out.complexity_score = complexity
            /\ sel.out.mode = decision[1]
            /\ sel.out.confidence = decision[2]

(***************************************************************************)
(* The simulated value                                                      *)
(***************************************************************************)

\* C28: the value simulated for a node is 0.4 * min(depth / 5, 1)
\* + 0.4 * min(word_count / 50, 1) + 0.2 * (distinct strategy tags on the
\* node's path to the root / 6), and lies in [0, 1].  In units of 1/750 the
\* three terms are 60 * min(depth, 5), 6 * min(words, 50) and 25 * tags.
C28_SimulatedValue ==
    \A i \in 1..Len(passes) :
        LET n == nodes[passes[i].node]
        IN  /\ passes[i].value = 60 * Min(n.depth, 5) + 6 * Min(n.words, 50)
                                 + 25 * Cardinality(StrategiesUsed(passes[i].node, nodes))
            /\ 0 <= passes[i].value /\ passes[i].value <= 750

(***************************************************************************)
(* Fast-mode requests                                                       *)
(***************************************************************************)

\* C29: for a request in system1 (Fast) mode the search is not run:
\* generate_reasoning_chain builds no tree and issues no step-generation call.
C29_FastModeSkipsSearch ==
    (pc # "idle" /\ req.thinking_mode = "system1") => calls = 0 /\ nodes = <<>>

(***************************************************************************)
(* Agreement of the two complexity estimators                               *)
(***************************************************************************)

\* C30: the Mode Selector's _analyze_complexity and the Budget Allocator's
\* _estimate_complexity return the same score for the same query text.
C30_EstimatorsAgree ==
    est.done => est.selector = est.allocator

(***************************************************************************)
(* The Mode Selector and the Budget Allocator on the same request: the      *)
(* thinking mode is selected, then a budget is allocated without an         *)
(* explicit mode for the same affect, load and readiness, either from the   *)
(* decision's complexity_score or from the query itself.                    *)
(***************************************************************************)
AgreeAffects ==
    [primary_emotion : ModeEmotions, valence : {-100, 0, 100},
     learning_readiness : {"moderate_readiness"}]

AgreeArgs ==
    {[query_given |-> TRUE, query |-> q, emotion_state |-> es,
      load_given |-> TRUE, cognitive_load |-> l, learning_readiness |-> lr] :
        q \in QuerySamples \cup {TermQuery}, es \in AgreeAffects,
        l \in Loads \cup ThresholdLoads, lr \in LearningReadiness}

AgreeInit ==
    /\ StoreIdle
    /\ sel = NoSelCall /\ dec = NoDecision /\ est = NoEstimate
    /\ BudgetIdle /\ ChainIdle /\ GenIdle

\* engine.select_thinking_mode(query, emotion_state, cognitive_load, readiness)
SelectFirst ==
    /\ ~sel.done
    /\ \E a \in AgreeArgs :
        sel' = [done |-> TRUE, args |-> a, out |-> SelectThinkingMode(a)]
    /\ UNCHANGED <<dec, est, storeVars, budgetVars, chainVars, genVars>>

\* allocator.allocate_budget(..., complexity=decision.complexity_score)
AllocateFromDecision ==
    /\ sel.done /\ ~call.done
    /\ LET a == [emotion_state |-> sel.args.emotion_state,
                 cognitive_load |-> sel.args.cognitive_load,
                 complexity_given |-> TRUE, complexity |-> sel.out.complexity_score,
                 query_given |-> FALSE, query |-> BlankQuery, mode |-> None,
                 learning_readiness |-> sel.args.learning_readiness,
                 provider_max_tokens |-> 0]
       IN  call' = [done |-> TRUE, args |-> a, out |-> AllocateBudget(cfg, a)]
    /\ UNCHANGED <<cfg, prev, selVars, storeVars, chainVars, genVars>>

\* allocator.allocate_budget(..., query=query)
AllocateFromQuery ==
    /\ sel.done /\ ~call.done
    /\ LET a == [emotion_state |-> sel.args.emotion_state,
                 cognitive_load |-> sel.args.cognitive_load,
                 complexity_given |-> FALSE, complexity |-> 0,
                 query_given |-> TRUE, query |-> sel.args.query, mode |-> None,
                 learning_readiness |-> sel.args.learning_readiness,
                 provider_max_tokens |-> 0]
       IN  call' = [done |-> TRUE, args |-> a, out |-> AllocateBudget(cfg, a)]
    /\ UNCHANGED <<cfg, prev, selVars, storeVars, chainVars, genVars>>

AgreeNext == SelectFirst \/ AllocateFromDecision \/ AllocateFromQuery

SpecAgree == AgreeInit /\ [][AgreeNext]_vars

\* C31: for the same complexity, affect, load and readiness the budget mode
\* allocate_budget derives agrees with the thinking mode select_thinking_mode
\* chose: aggressive exactly when system2, conservative exactly when system1,
\* balanced exactly when hybrid.
C31_ModesAgree ==
    (sel.done /\ call.done /\ call.args.complexity_given) =>
        /\ call.out.mode = "aggressive" <=> sel.out.mode = "system2"
        /\ call.out.mode = "conservative" <=> sel.out.mode = "system1"
        /\ call.out.mode = "balanced" <=> sel.out.mode = "hybrid"

(***************************************************************************)
(* Completion of the returned chain (checked under SpecGen)                 *)
(***************************************************************************)

\* C32: on every path of generate_reasoning_chain that returns (search,
\* no step generator, except branch) mark_complete is applied exactly once
\* and after the last add_step: the chain is not completed before the return
\* and not touched after it, and the returned chain has completed_at and
\* conclusion set, steps numbered 1..K and total_confidence equal to the mean
\* of its steps' confidences (0.0 for a chain without steps).
C32_CompletedOnceAfterLastStep ==
    /\ [](pc = "returned" =>
            /\ chain.completed_at # 0
            /\ CASE result = "no_engine" ->
                        chain.conclusion = SimplePath(req.query).conclusion
                 [] result = "except" -> chain.conclusion = "Processing complete"
                 [] OTHER -> chain.conclusion = ExtractBestPath(nodes).conclusion
            /\ \A i \in 1..Len(chain.steps) : objs[chain.steps[i]].step_number = i
            /\ IF chain.steps = <<>> THEN chain.total_confidence.sum = 0
               ELSE chain.total_confidence.sum * Len(chain.steps)
                    = SumConfidence(chain.steps, objs) * chain.total_confidence.n)
    /\ [](pc # "returned" => chain.completed_at = 0 /\ chain.steps = <<>>)
    /\ [][/\ chain' # chain => pc # "returned"
          /\ (chain'.steps # chain.steps \/ chain'.completed_at # chain.completed_at)
                => pc' = "returned"]_vars

\* A search returns a chain of three steps whose confidences differ.
C32_Witness ==
    /\ pc = "returned" /\ result = "search"
    /\ Len(chain.steps) = 3
    /\ objs[chain.steps[1]].confidence # objs[chain.steps[3]].confidence
    /\ chain.completed_at # 0

(***************************************************************************)
(* The reasoning ratio over the configurations BudgetConfig accepts: each   *)
(* bound of the ratio range at its least, default and greatest value.       *)
(***************************************************************************)
RatioConfigs ==
    {[DefaultBudgetConfig EXCEPT !.reasoning_ratio_min = lo, !.reasoning_ratio_max = hi] :
        lo \in {20, 40, 60}, hi \in {50, 70, 80}}

RatioArgs ==
    {[emotion_state |-> es, cognitive_load |-> l, complexity_given |-> TRUE,
      complexity |-> c, query_given |-> FALSE, query |-> BlankQuery,
      mode |-> None, learning_readiness |-> None, provider_max_tokens |-> 0] :
        es \in ModeAffects, l \in {0, 50},
        c \in Complexities \cup ThresholdComplexities}

RatioInit ==
    /\ StoreIdle
    /\ cfg \in RatioConfigs
    /\ BudgetConfigOK(cfg)
    /\ call = NoCall
    /\ prev = NoCall
    /\ SelIdle /\ ChainIdle /\ GenIdle

\* allocator.allocate_budget(...) on an allocator built from the config
AllocateForRatio ==
    /\ ~call.done
    /\ \E a \in RatioArgs :
        call' = [done |-> TRUE, args |-> a, out |-> AllocateBudget(cfg, a)]
    /\ UNCHANGED <<cfg, prev, selVars, storeVars, chainVars, genVars>>

RatioNext == AllocateForRatio

SpecRatio == RatioInit /\ [][RatioNext]_vars

\* C33: reasoning_ratio is 0.5, plus 0.15 if complexity > 0.7, plus 0.10 if
\* the primary emotion is confused, frustrated or anxious, minus 0.10 if it is
\* confident or engaged, clamped to the configured range, and lies in
\* [reasoning_ratio_min, reasoning_ratio_max] for every accepted configuration.
C33_ReasoningRatio ==
    (IsBudget(call) /\ ~call.out.fallback) =>
        LET emotion == call.args.emotion_state.primary_emotion
            stated == 50 + (IF call.out.complexity_score > 7000 THEN 15 ELSE 0)
                         + (IF emotion \in {"confused", "frustrated", "anxious"}
                            THEN 10 ELSE 0)
                         - (IF emotion \in {"confident", "engaged"} THEN 10 ELSE 0)
        IN  /\ call.out.reasoning_ratio
                 = Max(cfg.reasoning_ratio_min, Min(stated, cfg.reasoning_ratio_max))
            /\ cfg.reasoning_ratio_min <= call.out.reasoning_ratio
            /\ call.out.reasoning_ratio <= cfg.reasoning_ratio_max

(***************************************************************************)
(* MetacognitiveController.allocate_budget: a coroutine that awaits the     *)
(* value of the allocator's plain (non-coroutine) allocate_budget.          *)
(***************************************************************************)

\* await applied to an object that is no awaitable raises TypeError.
AwaitRaised ==
    [Raised("object TokenBudget can't be used in 'await' expression")
        EXCEPT !.kind = "TypeError"]

\* return await self.budget_allocator.allocate_budget(query=..., emotion_state=...,
\*     cognitive_load=..., learning_readiness=...): the call is evaluated first,
\* so its ValueError passes through; a returned TokenBudget is then awaited.
ControllerAllocateBudget(c, a) ==
    LET budget == AllocateBudget(c, a)
    IN  IF budget.kind = "ValueError" THEN budget ELSE AwaitRaised

DelegateArgs ==
    {[emotion_state |-> es, cognitive_load |-> l, complexity_given |-> FALSE,
      complexity |-> 0, query_given |-> TRUE, query |-> q, mode |-> None,
      learning_readiness |-> lr, provider_max_tokens |-> 0] :
        es \in AffectSamples, l \in Loads \cup BadLoads,
        q \in QuerySamples \cup {TermQuery}, lr \in ReadinessArgs}

\* self.budget_allocator = DynamicBudgetAllocator(): the default config.
DelegateInit ==
    /\ StoreIdle
    /\ cfg = DefaultBudgetConfig
    /\ call = NoCall
    /\ prev = NoCall
    /\ SelIdle /\ ChainIdle /\ GenIdle

\* controller.budget_allocator.allocate_budget(query=..., ...)
AllocateDirect ==
    /\ ~prev.done
    /\ \E a \in DelegateArgs :
        prev' = [done |-> TRUE, args |-> a, out |-> AllocateBudget(cfg, a)]
    /\ UNCHANGED <<cfg, call, selVars, storeVars, chainVars, genVars>>

\* await controller.allocate_budget(...) with the same arguments
AllocateViaController ==
    /\ prev.done /\ ~call.done
    /\ call' = [done |-> TRUE, args |-> prev.args,
                out |-> ControllerAllocateBudget(cfg, prev.args)]
    /\ UNCHANGED <<cfg, prev, selVars, storeVars, chainVars, genVars>>

DelegateNext == AllocateDirect \/ AllocateViaController

SpecDelegate == DelegateInit /\ [][DelegateNext]_vars

\* C34: MetacognitiveController.allocate_budget returns exactly the
\* TokenBudget the allocator's allocate_budget returns for the same arguments
\* and surfaces no error other than the allocator's validation error.
C34_ControllerReturnsAllocatorBudget ==
    (prev.done /\ call.done) =>
        /\ call.out = prev.out
        /\ call.out.kind \in {"TokenBudget", "ValueError"}

(***************************************************************************)
(* Planning estimates of a decision (checked under SpecSelect)              *)
(***************************************************************************)

\* C35: every decision select_thinking_mode returns, the fallback decision
\* included, carries estimates inside its mode's range: system1 500-1500 ms
\* and 300-1000 tokens, hybrid 1500-4500 ms and 800-2500 tokens, system2
\* 3000-8000 ms and 1500-4500 tokens; so a system1 decision has
\* estimated_time_ms < 2000.  Times are in tenths of a millisecond.
C35_EstimatesInModeRange ==
    (sel.done /\ sel.out.kind = "ThinkingDecision") =>
        LET time == sel.out.estimated_time
            tokens == sel.out.estimated_tokens
        IN  CASE sel.out.mode = "system1" ->
                    /\ 5000 <= time /\ time <= 15000 /\ time < 20000
                    /\ 300 <= tokens /\ tokens <= 1000
              [] sel.out.mode = "hybrid" ->
                    /\ 15000 <= time /\ time <= 45000
                    /\ 800 <= tokens /\ tokens <= 2500
              [] sel.out.mode = "system2" ->
                    /\ 30000 <= time /\ time <= 80000
                    /\ 1500 <= tokens /\ tokens <= 4500
              [] OTHER -> FALSE

\* A system2 decision computed for the long technical query, whose complexity
\* puts the estimate in the upper part of the mode's range.
C35_Witness ==
    /\ sel.done /\ sel.out.kind = "ThinkingDecision" /\ ~sel.out.fallback
    /\ sel.args.query = ComplexQuery
    /\ sel.out.mode = "system2"
    /\ sel.out.estimated_time > 60000
    /\ sel.out.estimated_tokens > 3000

(***************************************************************************)
(* Length signal of the estimators (checked under SpecEstimate)             *)
(***************************************************************************)

\* C36: a query of 1000 words or more is recognised as complex: the Mode
\* Selector's complexity score for it is above 0.7, whatever its vocabulary
\* and question words.
C36_VeryLongQueryIsComplex ==
    (est.done /\ ~est.query.blank /\ est.query.words >= 1000) => est.selector > 7000

(***************************************************************************)
(* ucb_score and _select on trees with siblings.  A search only ever grows  *)
(* a chain, so the trees are built node by node, as the engine's tests      *)
(* build MCTSNode objects: a root, two children and optionally a grandchild *)
(* under the first child, with visit counts and values drawn freely.        *)
(***************************************************************************)
ParentVisits == {0, 1, 2, 5}

\* <<visits, value>> of a child; value in units of 1/750.
ChildStats == {<<0, 0>>, <<1, 300>>, <<1, 600>>, <<2, 600>>, <<4, 900>>}

GrandchildStats == {<<0, 0>>, <<1, 300>>}

StatNode(parent, depth, stats, children) ==
    [NewNode("Step", 1, "deductive", parent, depth)
        EXCEPT !.visits = stats[1], !.value = stats[2], !.children = children]

UcbTrees ==
    {<<StatNode(0, 0, <<pv, 0>>, <<2, 3>>), StatNode(1, 1, a, <<>>), StatNode(1, 1, b, <<>>)>> :
        pv \in ParentVisits, a \in ChildStats, b \in ChildStats}
    \cup
    {<<StatNode(0, 0, <<pv, 0>>, <<2, 3>>), StatNode(1, 1, a, <<4>>), StatNode(1, 1, b, <<>>),
       StatNode(2, 2, g, <<>>)>> :
        pv \in ParentVisits, a \in ChildStats, b \in ChildStats, g \in GrandchildStats}

UcbInit ==
    /\ StoreIdle
    /\ pc = "idle" /\ req = NoRequest /\ iteration = 0
    /\ nodes \in UcbTrees
    /\ selected = 0 /\ calls = 0 /\ fails = 0 /\ cancelled = FALSE /\ result = None
    /\ passes = <<>> /\ context = <<>>
    /\ ConcIdle /\ BudgetIdle /\ SelIdle /\ ChainIdle

\* engine._select(root)
UcbSelect ==
    /\ pc = "idle"
    /\ selected' = SelectLeaf(1, nodes)
    /\ pc' = "selected"
    /\ UNCHANGED <<req, iteration, nodes, calls, fails, cancelled, result, passes, context,
                   concVars, budgetVars, selVars, storeVars, chainVars>>

UcbNext == UcbSelect

SpecUcb == UcbInit /\ [][UcbNext]_vars

Siblings(n) == {m \in DOMAIN nodes : nodes[m].parent = nodes[n].parent}

\* C37: a node with zero visits has UCB1 score +infinity whatever its
\* parent's state; _select never descends into a visited child while an
\* unvisited sibling exists (it takes a child of maximal score down to a
\* leaf); a visited child of a visited parent scores value/visits +
\* C * sqrt(ln(parent.visits) / visits): with e the score less value/visits,
\* e * e * visits equals C * C * ln(parent.visits) up to rounding.
C37_UcbScoreAndSelection ==
    /\ \A n \in DOMAIN nodes :
           nodes[n].visits = 0 => UcbScore(nodes[n], nodes).infinite
    /\ pc = "selected" =>
           /\ nodes[selected].children = <<>>
           /\ \A n \in PathToRoot(selected, nodes) \ {1} :
                  /\ (\E m \in Siblings(n) : nodes[m].visits = 0) => nodes[n].visits = 0
                  /\ \A m \in Siblings(n) : ~UcbLess(nodes[n], nodes[m], nodes)
    /\ \A n \in DOMAIN nodes :
           (nodes[n].visits > 0 /\ nodes[n].parent # 0
                /\ nodes[nodes[n].parent].visits > 0) =>
               LET score == UcbScore(nodes[n], nodes)
                   v == nodes[n].visits
                   x == (nodes[n].value * 40) \div (3 * v)
                   e == score.finite - x
                   want == exploration_weight * exploration_weight
                           * LnVisits(nodes[nodes[n].parent].visits)
               IN  /\ ~score.infinite
                   /\ e >= 0
                   /\ e * e * v <= want
                   /\ want - e * e * v <= 8 * e * v + 100

\* The first child is visited, the second is not: selection takes the second.
C37_Witness ==
    /\ pc = "selected"
    /\ nodes[1].visits = 5
    /\ nodes[2].visits = 4 /\ nodes[2].value = 900
    /\ nodes[3].visits = 0
    /\ selected = 3

(***************************************************************************)
(* Vector store (QdrantVectorStore)                                         *)
(*                                                                         *)
(* A message id is a string, told apart by how uuid.UUID reads it: the      *)
(* canonical text of a UUID (lower case, hyphenated), another text of the   *)
(* same UUID (upper case), or a text that is no UUID.  store.points is what *)
(* the Qdrant collection holds: one point per point id, with the session_id *)
(* of its payload.                                                          *)
(***************************************************************************)
MessageIds ==
    {[form |-> "canonical", value |-> "uuid-a"], [form |-> "upper", value |-> "uuid-a"],
     [form |-> "canonical", value |-> "uuid-b"],
     [form |-> "plain", value |-> "del_msg_0"], [form |-> "plain", value |-> "del_msg_1"]}

SessionIds == {"session-1", "session-2"}

\* str(uuid.UUID(text)): the canonical text of the UUID a text stands for.
ParsedUuid(id) == [form |-> "canonical", value |-> <<"uuid", id.value>>]

\* point_id in insert: str(uuid.UUID(message_id)) when the text parses;
\* else str(uuid5(NAMESPACE_DNS, message_id)).
PointIdOf(message_id) ==
    IF message_id.form \in {"canonical", "upper"} THEN ParsedUuid(message_id)
    ELSE [form |-> "canonical", value |-> <<"uuid5", message_id.value>>]

\* client.upsert(points=[point]): the point replaces one of the same id.
Upsert(points, point) == {q \in points : q.id # point.id} \cup {point}

\* client.count(count_filter=session_id == s).count
Count(points, session_id) == Cardinality({q \in points : q.session_id = session_id})

\* client.delete(points_selector=[id]) for an id text as the caller wrote it.
\* A canonical UUID text names its point.  Another text of a UUID names the
\* same point where ids are parsed and no point where they are compared as
\* written.  A text that is no UUID is no point id: the call is rejected
\* (raises) or selects nothing.  Each outcome: did it raise, what is left.
DeleteOutcomes(points, id) ==
    LET without(pid) == {q \in points : q.id # pid}
    IN  CASE id.form = "canonical" ->
                {[raised |-> FALSE, points |-> without(ParsedUuid(id))]}
          [] id.form = "upper" ->
                {[raised |-> FALSE, points |-> without(ParsedUuid(id))],
                 [raised |-> FALSE, points |-> points]}
          [] OTHER -> {[raised |-> TRUE, points |-> points],
                       [raised |-> FALSE, points |-> points]}

VectorInit ==
    /\ StoreIdle
    /\ BudgetIdle /\ SelIdle /\ ChainIdle /\ GenIdle

\* await store.connect()
Connect ==
    /\ ~store.initialized
    /\ store' = [store EXCEPT !.initialized = TRUE]
    /\ UNCHANGED <<budgetVars, selVars, chainVars, genVars>>

\* await store.insert(message_id, embedding, session_id, ...) returns True
Insert ==
    /\ store.initialized
    /\ \E m \in MessageIds, s \in SessionIds :
        store' = [store EXCEPT
                    !.points = Upsert(@, [id |-> PointIdOf(m), session_id |-> s]),
                    !.held = {h \in @ : PointIdOf(h) # PointIdOf(m)} \cup {m},
                    !.last = [NoStoreCall EXCEPT !.op = "insert", !.message_id = m,
                                                 !.ok = TRUE]]
    /\ UNCHANGED <<budgetVars, selVars, chainVars, genVars>>

\* await store.insert(...) whose upsert raises: False, nothing stored
InsertFails ==
    /\ store.initialized
    /\ \E m \in MessageIds :
        store' = [store EXCEPT
                    !.last = [NoStoreCall EXCEPT !.op = "insert", !.message_id = m]]
    /\ UNCHANGED <<budgetVars, selVars, chainVars, genVars>>

\* await store.delete(message_id): points_selector=[message_id], True unless
\* the client raised.  last records whether the id was inserted and is still
\* stored (had), the points that went, and its session's count around the call.
Delete ==
    /\ store.initialized
    /\ \E m \in MessageIds :
        \E o \in DeleteOutcomes(store.points, m), s \in SessionIds :
            /\ \/ [id |-> PointIdOf(m), session_id |-> s] \in store.points
               \/ (\A q \in store.points : q.id # PointIdOf(m)) /\ s = "session-1"
            /\ store' = [store EXCEPT
                            !.points = o.points,
                            !.held = {h \in @ : \E q \in o.points : q.id = PointIdOf(h)},
                            !.last = [op |-> "delete", message_id |-> m, ok |-> ~o.raised,
                                      had |-> m \in store.held,
                                      removed |-> store.points \ o.points,
                                      before |-> Count(store.points, s),
                                      after |-> Count(o.points, s)]]
    /\ UNCHANGED <<budgetVars, selVars, chainVars, genVars>>

VectorNext == Connect \/ Insert \/ InsertFails \/ Delete

SpecVector == VectorInit /\ [][VectorNext]_vars

\* C38: for any message_id, UUID-formatted or not, after a successful
\* insert(message_id, ...) on a connected store, delete(message_id) succeeds
\* and removes exactly that point, so the session's count drops by one.
C38_InsertDeleteRoundTrip ==
    (store.last.op = "delete" /\ store.last.had) =>
        /\ store.last.ok
        /\ \E s \in SessionIds :
               store.last.removed = {[id |-> PointIdOf(store.last.message_id),
                                      session_id |-> s]}
        /\ store.last.after = store.last.before - 1

(***************************************************************************)
(* Growth of the score with the length of the query (SpecEstimate)          *)
(***************************************************************************)

\* C39: in each complexity estimator the length signal is a saturating,
\* non-decreasing function of word count: adding words to a query while its
\* other signals stay the same never lowers its score, the step from 100 to
\* more than 100 words included.
C39_LengthNeverLowersScore ==
    (est.done /\ est.shorter.done) =>
        /\ est.selector >= est.shorter.selector
        /\ est.allocator >= est.shorter.allocator

=============================================================================
